---- MODULE Spec2Model ----
(***************************************************************************)
(* A model of the whisper peer messaging engine: two nodes, each with its  *)
(* own SQLite store (users, friends, messages, conferences), a session     *)
(* cell, and the friend, direct-message and conference managers with       *)
(* their stream handlers and listeners.                                    *)
(*                                                                         *)
(* Spec         is the complete relation: every operation and handler as   *)
(*              one atomic action, with process restarts.                  *)
(* SpecFriends  is the sessions and the friend operations and handlers.    *)
(* SpecRotate   is SpecFriends with process restarts (a restart generates  *)
(*              a new peer identity).                                      *)
(* SpecRace     runs the friend operations one store call at a time, so    *)
(*              that calls issued concurrently on one node interleave.     *)
(* SpecMsg      is the sessions and the direct-message operations and      *)
(*              handlers, started from the stores the friend operations    *)
(*              leave behind.                                              *)
(* SpecConf     is the conference commands of one shell, its invite        *)
(*              handler and its topic listeners, from the same stores.     *)
(* SpecListen   is create, join, leave and the listeners of one node,      *)
(*              the listeners scheduled fairly.                            *)
(* SpecTopics   is two nodes that each create and listen to conferences.   *)
(* SpecInbound  is a direct message sent and its inbound handler, one      *)
(*              store call at a time.                                      *)
(* SpecUsers    is every operation that writes the users table, with a     *)
(*              second local account and a restart of one node.            *)
(* SpecSession  is register, login, logout and restart, one node running   *)
(*              the GUI and the other the shell.                           *)
(* SpecEngine   is the conference engine's subscribe and leave, one map     *)
(*              access at a time, for calls on different tasks.            *)
(* SpecRegistry is the transport node's connection notifications.          *)
(* SpecForged   is the friend protocol of two logged-in users with a third *)
(*              peer that sends friend/accept payloads nobody asked for.   *)
(* SpecJoin     is create and leave from the shell with JoinConference     *)
(*              calls that may overlap, one statement at a time.           *)
(* SpecCreate   is CreateConference one statement at a time, each store    *)
(*              write and the topic join allowed to fail.                  *)
(* SpecStrand   is two friends exchanging direct messages while one of     *)
(*              them restarts under a new peer identity, the message       *)
(*              handler and the retry task scheduled fairly.               *)
(***************************************************************************)
EXTENDS Integers, Sequences, FiniteSets, Bags, TLC

VARIABLES
    users,          \* [node -> sequence of rows of table users]
    friends,        \* [node -> sequence of rows of table friends]
    messages,       \* [node -> sequence of rows of table messages]
    currentUserID,  \* [node -> currentUserID of its friends, messages and conference
                    \*  Manager; 0 = no session]
    auth,           \* [node -> AuthService.currentUser (a snapshot row), NoUser if none]
    alive,          \* [node -> the process has not panicked]
    epoch,          \* [node -> number of restarts; each start generates a new identity]
    connected,      \* the libp2p connection between the two nodes is open
    net,            \* bag of stream payloads written and not yet handled
    retryTask,      \* [node -> user id of the spawned login retry goroutine, 0 = none]
    result,         \* the operation or handler that ran last, and its outcome
    ghost,          \* [node -> history of its message rows; read by no operation]
    calls,          \* SpecRace: in-progress friend calls, one store call per step
    conferences,    \* [node -> sequence of rows of table conferences]
    participants,   \* [node -> sequence of rows of table conference_participants]
    conferenceMessages, \* [node -> sequence of rows of table conference_messages]
    engine,         \* [node -> conference Manager maps, its pubsub subscriptions, listeners]
    confGhost,      \* [node -> history of its conference rows; read by no operation]
    transport       \* [node -> P2PHost.peers and the connections its swarm holds open]

\* the conference state, and the registry that only the connection
\* notifications write
confVars == <<conferences, participants, conferenceMessages, engine, confGhost, transport>>

vars == <<users, friends, messages, currentUserID, auth, alive, epoch, connected,
          net, retryTask, result, ghost, calls, confVars>>

----------------------------------------------------------------------------
(* Bounds *)

MaxMessages == 1        \* direct messages each user sends
MaxInFlight == 2        \* stream payloads in flight
MaxRestarts == 1        \* process restarts, over all nodes
MaxCalls    == 2        \* SpecRace: concurrent friend calls
MaxConfs    == 2        \* SpecConf: conferences each node creates
MaxSubs     == 2        \* SpecConf: topic subscriptions each process opens
MaxGossip   == 1        \* SpecConf: messages published on the conference topics
MaxConns    == 2        \* SpecRegistry: connections open to one peer

----------------------------------------------------------------------------
(* Nodes, identities and inputs *)

Nodes == {"A", "B"}

Other(n) == IF n = "A" THEN "B" ELSE "A"

\* the identities a node generates, one per start (NewP2PHost is given no key)
Identities ==
    [A |-> <<"pA0", "pA1", "pA2", "pA3">>, B |-> <<"pB0", "pB1", "pB2", "pB3">>]

\* host.ID(): fixed for the lifetime of the process
PeerOf(n) == Identities[n][epoch[n] + 1]

\* every identity generated so far
Peers == UNION {{Identities[n][e + 1] : e \in 0..epoch[n]} : n \in Nodes}

\* the account each node's user registers
UsernameOf(n) == IF n = "A" THEN "alice" ELSE "bob"

FullNameOf(u) ==
    IF u = "alice" THEN "Alice Smith" ELSE IF u = "carol" THEN "Carol King" ELSE "Bob Jones"

\* the accounts a node's shell registers: its user's, and a second local one
Accounts(n) == {UsernameOf(n), "carol"}

\* fmt.Sprintf("unknown_%s", targetPeerID.String())
PlaceholderUsername(p) ==
    CASE p = "pA0" -> "unknown_pA0" [] p = "pA1" -> "unknown_pA1"
      [] p = "pA2" -> "unknown_pA2" [] p = "pA3" -> "unknown_pA3"
      [] p = "pB0" -> "unknown_pB0" [] p = "pB1" -> "unknown_pB1"
      [] p = "pB2" -> "unknown_pB2" [] p = "pB3" -> "unknown_pB3"

\* the usernames a shell command can name: the real ones and those in the store
Usernames(n) ==
    {UsernameOf(m) : m \in Nodes} \cup {users[n][i].username : i \in 1..Len(users[n])}

Passwords == {"password1", "wrongpass"}

Contents == {"hello"}

\* bcrypt.GenerateFromPassword / CompareHashAndPassword
HashPassword(pw) == <<"bcrypt", pw>>

\* a comparison of the stored string with the password as typed
ComparePlain(h, pw) == h[1] = pw \/ h = HashPassword(pw)

CompareHashAndPassword(h, pw) == h = HashPassword(pw)

RemoteHash == <<"P2P_REMOTE_USER", "">>

----------------------------------------------------------------------------
(* Table users *)

NoUser == [id |-> 0, username |-> "", password_hash |-> <<"", "">>,
           full_name |-> "", peer_id |-> ""]

NewUser(u, h, f, p) == [id |-> 0, username |-> u, password_hash |-> h,
                        full_name |-> f, peer_id |-> p]

GetUserByID(us, id) ==
    IF \E i \in 1..Len(us) : us[i].id = id
    THEN us[CHOOSE i \in 1..Len(us) : us[i].id = id]
    ELSE NoUser

GetUserByUsername(us, name) ==
    IF \E i \in 1..Len(us) : us[i].username = name
    THEN us[CHOOSE i \in 1..Len(us) : us[i].username = name]
    ELSE NoUser

GetUserByPeerID(us, p) ==
    IF \E i \in 1..Len(us) : us[i].peer_id = p
    THEN us[CHOOSE i \in 1..Len(us) : us[i].peer_id = p]
    ELSE NoUser

\* INSERT INTO users; username UNIQUE, peer_id UNIQUE, id AUTOINCREMENT
CreateUser(us, u) ==
    IF \E i \in 1..Len(us) : us[i].username = u.username \/ us[i].peer_id = u.peer_id
    THEN [ok |-> FALSE, users |-> us, user |-> u]
    ELSE LET row == [u EXCEPT !.id = Len(us) + 1]
         IN  [ok |-> TRUE, users |-> Append(us, row), user |-> row]

\* UPDATE users SET password_hash, full_name, peer_id, updated_at WHERE id = ?
\* (username is not in the column list); peer_id UNIQUE
UpdateUser(us, u) ==
    IF \E i \in 1..Len(us) : us[i].id # u.id /\ us[i].peer_id = u.peer_id
    THEN [ok |-> FALSE, users |-> us]
    ELSE [ok |-> TRUE,
          users |-> [i \in 1..Len(us) |->
                        IF us[i].id = u.id
                        THEN [us[i] EXCEPT !.password_hash = u.password_hash,
                                           !.full_name = u.full_name,
                                           !.peer_id = u.peer_id]
                        ELSE us[i]]]

----------------------------------------------------------------------------
(* Table friends *)

NoFriend == [id |-> 0, user_id |-> 0, friend_id |-> 0, peer_id |-> "",
             username |-> "", full_name |-> "", status |-> "", accepted_at |-> "zero"]

NewFriend(uid, fid, p, u, f, st, at) ==
    [id |-> 0, user_id |-> uid, friend_id |-> fid, peer_id |-> p,
     username |-> u, full_name |-> f, status |-> st, accepted_at |-> at]

\* the Friend struct scanned from a row: a NULL accepted_at leaves the zero time
ScanFriend(row) ==
    [row EXCEPT !.accepted_at = IF row.accepted_at = "NULL" THEN "zero" ELSE row.accepted_at]

GetFriendRequest(fs, uid, fid) ==
    IF \E i \in 1..Len(fs) : fs[i].user_id = uid /\ fs[i].friend_id = fid
    THEN ScanFriend(fs[CHOOSE i \in 1..Len(fs) : fs[i].user_id = uid /\ fs[i].friend_id = fid])
    ELSE NoFriend

\* the insert as it would run on a table without UNIQUE(user_id, friend_id)
CreateFriendRequestNoUnique(fs, f) ==
    [ok |-> TRUE,
     friends |-> Append(fs, [f EXCEPT !.id = Len(fs) + 1, !.accepted_at = "NULL"])]

\* INSERT INTO friends (accepted_at is not in the column list);
\* UNIQUE(user_id, friend_id)
CreateFriendRequest(fs, f) ==
    IF \E i \in 1..Len(fs) : fs[i].user_id = f.user_id /\ fs[i].friend_id = f.friend_id
    THEN [ok |-> FALSE, friends |-> fs]
    ELSE [ok |-> TRUE,
          friends |-> Append(fs, [f EXCEPT !.id = Len(fs) + 1, !.accepted_at = "NULL"])]

\* an update that writes nothing
UpdateFriendRequestNothing(fs, f) == fs

\* UPDATE friends SET status = ?, accepted_at = ? WHERE id = ?
UpdateFriendRequest(fs, f) ==
    [i \in 1..Len(fs) |->
        IF fs[i].id = f.id
        THEN [fs[i] EXCEPT !.status = f.status, !.accepted_at = f.accepted_at]
        ELSE fs[i]]

----------------------------------------------------------------------------
(* Stream payloads *)

\* one JSON object per stream; dst is the peer the stream was opened to,
\* src the remote peer the handler sees (s.Conn().RemotePeer())
\* (ref is a ghost field: the sender-side row a read receipt is meant for)
Wire(kind, dst, src, u, f, p, mid, tou, c) ==
    [kind |-> kind, dst |-> dst, src |-> src, username |-> u, full_name |-> f,
     peer_id |-> p, message_id |-> mid, to_username |-> tou, content |-> c, ref |-> 0]

NoWire == Wire("", "", "", "", "", "", 0, "", "")

\* FriendRequestMessage{FromUsername, FromFullName, FromPeerID}
FriendRequestMessage(dst, cur) ==
    Wire("friend/request", dst, cur.peer_id, cur.username, cur.full_name, cur.peer_id, 0, "", "")

\* FriendResponseMessage{Accepted, Username, FullName, PeerID}
FriendResponseMessage(kind, dst, cur) ==
    Wire(kind, dst, cur.peer_id, cur.username, cur.full_name, cur.peer_id, 0, "", "")

InFlight == BagCardinality(net)

\* host.NewStream can succeed only towards another live process over an open
\* connection; it may fail even then
CanStream(n, p) ==
    /\ \E m \in Nodes \ {n} : p = PeerOf(m) /\ alive[m]
    /\ connected

----------------------------------------------------------------------------
(* Friend manager: every operation and handler as a sequence of steps, one  *)
(* store call per step.  A call record holds the locals of the Go function. *)

NoCall == [op |-> "", node |-> "", pc |-> "idle", arg |-> "", msg |-> NoWire,
           cur |-> NoUser, u |-> NoUser, f |-> NoFriend, err |-> "", stream |-> "none",
           pre |-> "", id |-> 0, conf |-> 0]

NewCall(op, n, arg, msg, cur, pre) ==
    [NoCall EXCEPT !.op = op, !.node = n, !.pc = "start", !.arg = arg, !.msg = msg,
                   !.cur = cur, !.pre = pre]

\* the value a step returns: the tables, the call's next position, the payload written
StepResult(us, fs, c, out) == [users |-> us, friends |-> fs, call |-> c, out |-> out]

Return(c, err) == [c EXCEPT !.pc = "done", !.err = err]

Goto(c, pc) == [c EXCEPT !.pc = pc]

\* Manager.SendFriendRequest(currentUser, targetPeerID); c.arg is the target peer id
SendFriendRequestStep(us, fs, cuid, c, ok) ==
    CASE c.pc = "start" ->
            IF cuid = 0 THEN StepResult(us, fs, Return(c, "ErrNotAuthenticated"), <<>>)
            ELSE IF c.arg = c.cur.peer_id THEN StepResult(us, fs, Return(c, "ErrCannotAddSelf"), <<>>)
            ELSE LET targetUser == GetUserByPeerID(us, c.arg)
                 IN  IF targetUser.id = 0
                     THEN StepResult(us, fs, Goto(c, "createPlaceholder"), <<>>)
                     ELSE StepResult(us, fs, [Goto(c, "check") EXCEPT !.u = targetUser], <<>>)
      [] c.pc = "createPlaceholder" ->
            LET r == CreateUser(us, NewUser(PlaceholderUsername(c.arg), RemoteHash,
                                            "Unknown User", c.arg))
            IN  IF r.ok
                THEN StepResult(r.users, fs, [Goto(c, "check") EXCEPT !.u = r.user], <<>>)
                ELSE StepResult(us, fs, Goto(c, "retryLookup"), <<>>)
      [] c.pc = "retryLookup" ->
            LET targetUser == GetUserByPeerID(us, c.arg)
            IN  IF targetUser.id = 0
                THEN StepResult(us, fs, Return(c, "failed to create or retrieve placeholder user"), <<>>)
                ELSE StepResult(us, fs, [Goto(c, "check") EXCEPT !.u = targetUser], <<>>)
      [] c.pc = "check" ->
            LET existingFriend == GetFriendRequest(fs, c.cur.id, c.u.id)
            IN  IF existingFriend.id # 0
                THEN IF existingFriend.status = "accepted"
                     THEN StepResult(us, fs, Return(c, "ErrAlreadyFriends"), <<>>)
                     ELSE StepResult(us, fs, Return(c, "ErrPendingRequest"), <<>>)
                ELSE StepResult(us, fs, Goto(c, "insert"), <<>>)
      [] c.pc = "insert" ->
            LET r == CreateFriendRequest(fs, NewFriend(c.cur.id, c.u.id, c.u.peer_id,
                                             c.u.username, c.u.full_name, "pending", "zero"))
            IN  IF r.ok
                THEN StepResult(us, r.friends, Goto(c, "stream"), <<>>)
                ELSE StepResult(us, fs, Return(c, "failed to create friend request"), <<>>)
      [] c.pc = "stream" ->
            IF ok
            THEN StepResult(us, fs, [Return(c, "nil") EXCEPT !.stream = "sent"],
                            <<FriendRequestMessage(c.arg, c.cur)>>)
            ELSE StepResult(us, fs, [Return(c, "failed to open stream") EXCEPT !.stream = "failed"], <<>>)

\* Manager.AcceptFriendRequest(currentUser, fromUsername); c.arg is fromUsername
AcceptFriendRequestStep(us, fs, cuid, c, ok) ==
    CASE c.pc = "start" ->
            IF cuid = 0 THEN StepResult(us, fs, Return(c, "ErrNotAuthenticated"), <<>>)
            ELSE LET fromUser == GetUserByUsername(us, c.arg)
                 IN  IF fromUser.id = 0
                     THEN StepResult(us, fs, Return(c, "requesting user not found"), <<>>)
                     ELSE StepResult(us, fs, [Goto(c, "getRequest") EXCEPT !.u = fromUser], <<>>)
      [] c.pc = "getRequest" ->
            LET friendRequest == GetFriendRequest(fs, c.u.id, c.cur.id)
            IN  IF friendRequest.id = 0
                THEN StepResult(us, fs, Return(c, "ErrRequestNotFound"), <<>>)
                ELSE IF friendRequest.status # "pending"
                THEN StepResult(us, fs, Return(c, "request is not pending"), <<>>)
                ELSE StepResult(us, fs,
                        [Goto(c, "update") EXCEPT
                            !.f = [friendRequest EXCEPT !.status = "accepted",
                                                        !.accepted_at = "now"]], <<>>)
      [] c.pc = "update" ->
            StepResult(us, UpdateFriendRequest(fs, c.f), Goto(c, "reciprocal"), <<>>)
      [] c.pc = "reciprocal" ->
            LET r == CreateFriendRequest(fs, NewFriend(c.cur.id, c.u.id, c.u.peer_id,
                                             c.u.username, c.u.full_name, "accepted", "now"))
            IN  IF r.ok
                THEN StepResult(us, r.friends, Goto(c, "stream"), <<>>)
                ELSE StepResult(us, fs, Return(c, "failed to create reciprocal friendship"), <<>>)
      [] c.pc = "stream" ->
            IF ok
            THEN StepResult(us, fs, [Return(c, "nil") EXCEPT !.stream = "sent"],
                            <<FriendResponseMessage("friend/accept", c.u.peer_id, c.cur)>>)
            ELSE StepResult(us, fs, [Return(c, "nil") EXCEPT !.stream = "failed"], <<>>)

\* Manager.RejectFriendRequest(currentUser, fromUsername); c.arg is fromUsername
RejectFriendRequestStep(us, fs, cuid, c, ok) ==
    CASE c.pc = "start" ->
            IF cuid = 0 THEN StepResult(us, fs, Return(c, "ErrNotAuthenticated"), <<>>)
            ELSE LET fromUser == GetUserByUsername(us, c.arg)
                 IN  IF fromUser.id = 0
                     THEN StepResult(us, fs, Return(c, "requesting user not found"), <<>>)
                     ELSE StepResult(us, fs, [Goto(c, "getRequest") EXCEPT !.u = fromUser], <<>>)
      [] c.pc = "getRequest" ->
            LET friendRequest == GetFriendRequest(fs, c.u.id, c.cur.id)
            IN  IF friendRequest.id = 0
                THEN StepResult(us, fs, Return(c, "ErrRequestNotFound"), <<>>)
                ELSE IF friendRequest.status # "pending"
                THEN StepResult(us, fs, Return(c, "request is not pending"), <<>>)
                ELSE StepResult(us, fs,
                        [Goto(c, "update") EXCEPT
                            !.f = [friendRequest EXCEPT !.status = "rejected"]], <<>>)
      [] c.pc = "update" ->
            StepResult(us, UpdateFriendRequest(fs, c.f), Goto(c, "stream"), <<>>)
      [] c.pc = "stream" ->
            IF ok
            THEN StepResult(us, fs, [Return(c, "nil") EXCEPT !.stream = "sent"],
                            <<FriendResponseMessage("friend/reject", c.u.peer_id, c.cur)>>)
            ELSE StepResult(us, fs, [Return(c, "nil") EXCEPT !.stream = "failed"], <<>>)

\* Manager.handleIncomingRequest(request, fromPeer); c.msg is the request
handleIncomingRequestStep(us, fs, cuid, c, ok) ==
    CASE c.pc = "start" ->
            LET fromUser == GetUserByUsername(us, c.msg.username)
            IN  IF fromUser.id = 0
                THEN StepResult(us, fs, Goto(c, "createUser"), <<>>)
                ELSE StepResult(us, fs, [Goto(c, "session") EXCEPT !.u = fromUser], <<>>)
      [] c.pc = "createUser" ->
            LET r == CreateUser(us, NewUser(c.msg.username, RemoteHash,
                                            c.msg.full_name, c.msg.peer_id))
            IN  IF r.ok
                THEN StepResult(r.users, fs, [Goto(c, "session") EXCEPT !.u = r.user], <<>>)
                ELSE StepResult(us, fs, Return(c, "error creating user record"), <<>>)
      [] c.pc = "session" ->
            IF cuid = 0 THEN StepResult(us, fs, Return(c, "login to accept/reject"), <<>>)
            ELSE LET currentUser == GetUserByID(us, cuid)
                 IN  IF currentUser.id = 0
                     THEN StepResult(us, fs, Return(c, "could not get current user"), <<>>)
                     ELSE StepResult(us, fs, [Goto(c, "getExisting") EXCEPT !.cur = currentUser], <<>>)
      [] c.pc = "getExisting" ->
            LET existing == GetFriendRequest(fs, c.u.id, c.cur.id)
            IN  IF existing.id # 0
                THEN StepResult(us, fs, Return(c, "already exists"), <<>>)
                ELSE StepResult(us, fs, Goto(c, "insert"), <<>>)
      [] c.pc = "insert" ->
            LET r == CreateFriendRequest(fs, NewFriend(c.u.id, c.cur.id, c.u.peer_id,
                                             c.u.username, c.u.full_name, "pending", "zero"))
            IN  IF r.ok
                THEN StepResult(us, r.friends, Return(c, "nil"), <<>>)
                ELSE StepResult(us, fs, Return(c, "error saving friend request"), <<>>)

\* Manager.handleIncomingAccept(response, fromPeer); c.msg is the response
handleIncomingAcceptStep(us, fs, cuid, c, ok) ==
    CASE c.pc = "start" ->
            LET acceptingUser == GetUserByUsername(us, c.msg.username)
            IN  IF acceptingUser.id = 0
                THEN StepResult(us, fs, Goto(c, "byPeer"), <<>>)
                ELSE StepResult(us, fs, [Goto(c, "session") EXCEPT !.u = acceptingUser], <<>>)
      [] c.pc = "byPeer" ->
            LET acceptingUser == GetUserByPeerID(us, c.msg.peer_id)
            IN  IF acceptingUser.id = 0
                THEN StepResult(us, fs, Goto(c, "createUser"), <<>>)
                ELSE StepResult(us, fs,
                        [Goto(c, "updateUser") EXCEPT
                            !.u = [acceptingUser EXCEPT !.username = c.msg.username,
                                                        !.full_name = c.msg.full_name]], <<>>)
      [] c.pc = "createUser" ->
            LET r == CreateUser(us, NewUser(c.msg.username, RemoteHash,
                                            c.msg.full_name, c.msg.peer_id))
            IN  IF r.ok
                THEN StepResult(r.users, fs, [Goto(c, "session") EXCEPT !.u = r.user], <<>>)
                ELSE StepResult(us, fs, Return(c, "error creating user record"), <<>>)
      [] c.pc = "updateUser" ->
            StepResult(UpdateUser(us, c.u).users, fs, Goto(c, "session"), <<>>)
      [] c.pc = "session" ->
            IF cuid = 0 THEN StepResult(us, fs, Return(c, "no session"), <<>>)
            ELSE LET currentUser == GetUserByID(us, cuid)
                 IN  IF currentUser.id = 0
                     THEN StepResult(us, fs, Return(c, "could not get current user"), <<>>)
                     ELSE StepResult(us, fs, [Goto(c, "getExisting") EXCEPT !.cur = currentUser], <<>>)
      [] c.pc = "getExisting" ->
            LET existingRequest == GetFriendRequest(fs, c.cur.id, c.u.id)
            IN  IF existingRequest.id # 0 /\ existingRequest.status = "pending"
                THEN StepResult(us, fs,
                        [Goto(c, "update") EXCEPT
                            !.f = [existingRequest EXCEPT !.status = "accepted",
                                                          !.accepted_at = "now",
                                                          !.username = c.u.username,
                                                          !.full_name = c.u.full_name]], <<>>)
                ELSE StepResult(us, fs, Goto(c, "getReciprocal"), <<>>)
      [] c.pc = "update" ->
            StepResult(us, UpdateFriendRequest(fs, c.f), Goto(c, "getReciprocal"), <<>>)
      [] c.pc = "getReciprocal" ->
            LET reciprocalFriend == GetFriendRequest(fs, c.u.id, c.cur.id)
            IN  IF reciprocalFriend.id = 0
                THEN StepResult(us, fs, Goto(c, "createReciprocal"), <<>>)
                ELSE StepResult(us, fs, Return(c, "nil"), <<>>)
      [] c.pc = "createReciprocal" ->
            LET r == CreateFriendRequest(fs, NewFriend(c.u.id, c.cur.id, c.u.peer_id,
                                             c.u.username, c.u.full_name, "accepted", "now"))
            IN  StepResult(us, r.friends, Return(c, "nil"), <<>>)

\* Manager.handleIncomingReject(response, fromPeer): prints a notice only
handleIncomingRejectStep(us, fs, cuid, c, ok) ==
    StepResult(us, fs, Return(c, "nil"), <<>>)

FriendStep(us, fs, cuid, c, ok) ==
    CASE c.op = "SendFriendRequest"     -> SendFriendRequestStep(us, fs, cuid, c, ok)
      [] c.op = "AcceptFriendRequest"   -> AcceptFriendRequestStep(us, fs, cuid, c, ok)
      [] c.op = "RejectFriendRequest"   -> RejectFriendRequestStep(us, fs, cuid, c, ok)
      [] c.op = "handleIncomingRequest" -> handleIncomingRequestStep(us, fs, cuid, c, ok)
      [] c.op = "handleIncomingAccept"  -> handleIncomingAcceptStep(us, fs, cuid, c, ok)
      [] c.op = "handleIncomingReject"  -> handleIncomingRejectStep(us, fs, cuid, c, ok)

\* a call run from its start to its return with nothing interleaved
RECURSIVE RunFriendCall(_, _, _, _, _, _)
RunFriendCall(us, fs, cuid, c, ok, out) ==
    IF c.pc = "done" THEN StepResult(us, fs, c, out)
    ELSE LET r == FriendStep(us, fs, cuid, c, ok)
         IN  RunFriendCall(r.users, r.friends, cuid, r.call, ok, out \o r.out)

\* the peer a call's stream is opened to
StreamPeer(c) ==
    IF c.op = "SendFriendRequest" THEN c.arg ELSE c.u.peer_id

----------------------------------------------------------------------------
(* Table messages *)

NewMessage(fromID, toID, fromPeer, toPeer, content, delivered) ==
    [id |-> 0, from_user_id |-> fromID, to_user_id |-> toID, from_peer_id |-> fromPeer,
     to_peer_id |-> toPeer, content |-> content, delivered |-> delivered, read |-> FALSE,
     delivered_at |-> "NULL", read_at |-> "NULL"]

\* an INSERT that stores no row
SaveNothing(ms, m) == ms

\* INSERT INTO messages (delivered_at and read_at are not in the column list)
SaveMessage(ms, m) == Append(ms, [m EXCEPT !.id = Len(ms) + 1])

\* UPDATE messages SET delivered = 1, delivered_at = CURRENT_TIMESTAMP WHERE id = ?
MarkMessageDelivered(ms, id, now) ==
    [i \in 1..Len(ms) |->
        IF ms[i].id = id THEN [ms[i] EXCEPT !.delivered = TRUE, !.delivered_at = now]
        ELSE ms[i]]

\* UPDATE messages SET read = 1, read_at = CURRENT_TIMESTAMP WHERE id = ?
MarkMessageRead(ms, id, now) ==
    [i \in 1..Len(ms) |->
        IF ms[i].id = id THEN [ms[i] EXCEPT !.read = TRUE, !.read_at = now]
        ELSE ms[i]]

\* the values CURRENT_TIMESTAMP can take at a write to a column holding old: the
\* first stamp of a column is called "now"; a write to a stamped column falls in
\* the same second or in a later one
Stamps(old) == IF old = "NULL" THEN {"now"} ELSE {old, "later"}

\* the delivered_at and read_at columns of row id ("NULL" when there is no row)
DeliveredAt(ms, id) ==
    IF \E i \in 1..Len(ms) : ms[i].id = id
    THEN (CHOOSE r \in {ms[i] : i \in 1..Len(ms)} : r.id = id).delivered_at ELSE "NULL"

ReadAt(ms, id) ==
    IF \E i \in 1..Len(ms) : ms[i].id = id
    THEN (CHOOSE r \in {ms[i] : i \in 1..Len(ms)} : r.id = id).read_at ELSE "NULL"

\* the first k elements of a sequence
Take(seq, k) == IF Len(seq) <= k THEN seq ELSE SubSeq(seq, 1, k)

RECURSIVE Reverse(_)
Reverse(seq) == IF seq = <<>> THEN <<>> ELSE Append(Reverse(Tail(seq)), Head(seq))

\* ... WHERE (from = a AND to = b) OR (from = b AND to = a)
\*     ORDER BY created_at DESC LIMIT ?      (created_at is the insertion time)
GetMessages(ms, a, b, limit) ==
    Take(Reverse(SelectSeq(ms, LAMBDA m :
            \/ m.from_user_id = a /\ m.to_user_id = b
            \/ m.from_user_id = b /\ m.to_user_id = a)), limit)

\* ... WHERE to_user_id = ? AND delivered = 0 ORDER BY created_at ASC
GetUndeliveredMessages(ms, uid) ==
    SelectSeq(ms, LAMBDA m : m.to_user_id = uid /\ ~m.delivered)

\* MarkAsRead's page size
ConversationLimit == 100

----------------------------------------------------------------------------
(* Direct-message payloads *)

\* DirectMessage{MessageID, FromUsername, FromFullName, FromPeerID, ToUsername, Content}
DirectMessage(dst, src, mid, fromUser, toUser, content) ==
    Wire("message/direct", dst, src, fromUser.username, fromUser.full_name,
         fromUser.peer_id, mid, toUser.username, content)

\* MessageAck{MessageID, FromPeer, ToPeer}
MessageAck(dst, src, mid) ==
    Wire("message/ack", dst, src, "", "", "", mid, "", "")

\* MessageRead{MessageID, FromPeer, ToPeer}
MessageRead(dst, src, mid) ==
    Wire("message/read", dst, src, "", "", "", mid, "", "")

\* host.Network().Connectedness(p) == Connected
Connectedness(n, p) == connected /\ \E m \in Nodes \ {n} : p = PeerOf(m)

\* the friendship test of SendMessage: an accepted row in one direction or the other
IsFriend(fs, a, b) ==
    LET friendship == GetFriendRequest(fs, a, b)
    IN  IF friendship.id = 0 \/ friendship.status # "accepted"
        THEN LET reverse == GetFriendRequest(fs, b, a)
             IN  ~(reverse.id = 0 \/ reverse.status # "accepted")
        ELSE TRUE

----------------------------------------------------------------------------
(* State *)

Result(op, n, arg, err, stream, pre, mid) ==
    [op |-> op, node |-> n, arg |-> arg, err |-> err, stream |-> stream,
     pre |-> pre, mid |-> mid, ref |-> 0]

NoResult == Result("", "", "", "", "none", "", 0)

\* per node: ids of the rows SendMessage saved, ids named by the acks handled,
\* <<local id, id on the wire>> of the rows saved for inbound messages, the
\* peers a friend/request was written to, ids of the rows SendMessage queued
\* because the recipient was not connected, and those of them whose recipient
\* has since logged in with both users online ever since
NoGhost == [sent |-> {}, acked |-> {}, origin |-> {}, requested |-> {},
            offline |-> {}, awaited |-> {}]

\* ghost: somebody went offline
NoneAwaited(g) == [n \in Nodes |-> [g[n] EXCEPT !.awaited = {}]]

\* ghost: the user of node n has logged in; the rows queued for it at the other
\* node are awaited there if the connection is open and the sender is logged in
Awaited(g, n, ms, online) ==
    LET m == Other(n)
    IN  [g EXCEPT ![m].awaited =
            IF online
            THEN {id \in g[m].offline :
                     \E i \in 1..Len(ms[m]) : /\ ms[m][i].id = id
                                               /\ ms[m][i].to_peer_id = PeerOf(n)
                                               /\ ~ms[m][i].delivered}
            ELSE {}]

\* ghost: the friend/request payloads among out are recorded as written
Requested(g, out) ==
    [g EXCEPT !.requested = @ \cup {out[i].dst : i \in {j \in 1..Len(out) :
                                                        out[j].kind = "friend/request"}}]

\* conference ids a shell command can name
ConfIds == 1..MaxConfs

\* conference.NewManager: both maps empty (0 = no entry); subs are the
\* Subscription objects the process's PubSub has handed out, tasks the
\* listenToConference goroutines started, one per subscription
NoEngine == [subscriptions |-> [c \in ConfIds |-> 0], topics |-> [c \in ConfIds |-> 0],
             subs |-> <<>>, tasks |-> <<>>]

\* per node: for each conference_messages row the conference id its listener was
\* started for and whether LeaveConference had returned for that id; the ids
\* of the invites handled; the ids left and not joined again; the number of
\* messages published so far
NoConfGhost == [rows |-> <<>>, invited |-> {}, left |-> {}, heard |-> 0]

\* the peers a host can hold connections to: the other node and a third peer
Dialers(n) == {Identities[Other(n)][1], "pE0"}

\* NewP2PHost: peers: make(map[peer.ID]*PeerInfo); no connection yet
NoTransport(n) == [conns |-> [p \in Dialers(n) |-> 0], peers |-> [p \in Dialers(n) |-> "absent"]]

ConfInit ==
    /\ transport = [n \in Nodes |-> NoTransport(n)]
    /\ conferences = [n \in Nodes |-> <<>>]
    /\ participants = [n \in Nodes |-> <<>>]
    /\ conferenceMessages = [n \in Nodes |-> <<>>]
    /\ engine = [n \in Nodes |-> NoEngine]
    /\ confGhost = [n \in Nodes |-> NoConfGhost]

\* SetCurrentUser(userID) on the friends, messages and conference managers
SetCurrentUser(id) == [friends |-> id, messages |-> id, conference |-> id]

Init ==
    /\ ConfInit
    /\ users = [n \in Nodes |-> <<>>]
    /\ friends = [n \in Nodes |-> <<>>]
    /\ messages = [n \in Nodes |-> <<>>]
    /\ currentUserID = [n \in Nodes |-> SetCurrentUser(0)]
    /\ auth = [n \in Nodes |-> NoUser]
    /\ alive = [n \in Nodes |-> TRUE]
    /\ epoch = [n \in Nodes |-> 0]
    /\ connected = FALSE
    /\ net = EmptyBag
    /\ retryTask = [n \in Nodes |-> 0]
    /\ result = NoResult
    /\ ghost = [n \in Nodes |-> NoGhost]
    /\ calls = [i \in 1..MaxCalls |-> NoCall]

SeqToBag(seq) == [m \in {seq[i] : i \in 1..Len(seq)} |-> 1]

Put(bag, seq) == IF seq = <<>> THEN bag ELSE bag (+) SeqToBag(seq)

Take1(bag, m) == bag (-) SetToBag({m})

----------------------------------------------------------------------------
(* Session and connection *)

\* AuthService.Register as the shell calls it, with the node's peer id
RegisterAs(n, username) ==
    /\ alive[n]
    /\ LET existingUser == GetUserByUsername(users[n], username)
           r == CreateUser(users[n], NewUser(username, HashPassword("password1"),
                                             FullNameOf(username), PeerOf(n)))
       IN  /\ users' = [users EXCEPT ![n] = IF existingUser.id # 0 THEN @ ELSE r.users]
           /\ result' = Result("Register", n, username,
                               IF existingUser.id # 0 THEN "ErrUserExists"
                               ELSE IF r.ok THEN "nil" ELSE "failed to create user",
                               "none", "", 0)
    /\ UNCHANGED <<confVars, friends, messages, currentUserID, auth, alive, epoch, connected, net,
                   retryTask, ghost, calls>>

Register(n) == RegisterAs(n, UsernameOf(n))

\* the shell's login: AuthService.Login, the peer id refresh, SetCurrentUser on
\* the managers, and the spawn of the retry goroutine
Login(n, username, password) ==
    /\ alive[n]
    /\ LET user == GetUserByUsername(users[n], username)
       IN  IF user.id = 0
           THEN /\ result' = Result("Login", n, username, "ErrUserNotFound", "none", "", 0)
                /\ UNCHANGED <<confVars, users, auth, currentUserID, retryTask, ghost>>
           ELSE IF ~CompareHashAndPassword(user.password_hash, password)
           THEN /\ result' = Result("Login", n, username, "ErrInvalidPassword", "none", "", 0)
                /\ UNCHANGED <<confVars, users, auth, currentUserID, retryTask, ghost>>
           ELSE LET refreshed == [user EXCEPT !.peer_id = PeerOf(n)]
                IN  /\ users' = [users EXCEPT ![n] =
                                    IF user.peer_id # PeerOf(n)
                                    THEN UpdateUser(@, refreshed).users ELSE @]
                    /\ auth' = [auth EXCEPT ![n] = refreshed]
                    /\ currentUserID' = [currentUserID EXCEPT ![n] = SetCurrentUser(user.id)]
                    /\ retryTask' = [retryTask EXCEPT ![n] = user.id]
                    /\ result' = Result("Login", n, username, "nil", "none", "", 0)
                    /\ ghost' = Awaited(ghost, n, messages,
                                        connected /\ alive[Other(n)] /\ auth[Other(n)].id # 0)
    /\ UNCHANGED <<confVars, friends, messages, alive, epoch, connected, net, calls>>

\* the shell's logout: AuthService.Logout and SetCurrentUser(0)
Logout(n) ==
    /\ alive[n]
    /\ auth[n].id # 0
    /\ auth' = [auth EXCEPT ![n] = NoUser]
    /\ currentUserID' = [currentUserID EXCEPT ![n] = SetCurrentUser(0)]
    /\ result' = Result("Logout", n, "", "nil", "none", "", 0)
    /\ ghost' = NoneAwaited(ghost)
    /\ UNCHANGED <<confVars, users, friends, messages, alive, epoch, connected, net, retryTask, calls>>

\* the GUI's App.Login: AuthService.Login, the peer id written back, and
\* SetCurrentUser on the friends and messages managers
AppLogin(n, username, password) ==
    /\ alive[n]
    /\ LET user == GetUserByUsername(users[n], username)
       IN  IF user.id = 0
           THEN /\ result' = Result("Login", n, username, "ErrUserNotFound", "none", "", 0)
                /\ UNCHANGED <<users, auth, currentUserID>>
           ELSE IF ~CompareHashAndPassword(user.password_hash, password)
           THEN /\ result' = Result("Login", n, username, "ErrInvalidPassword", "none", "", 0)
                /\ UNCHANGED <<users, auth, currentUserID>>
           ELSE LET refreshed == [user EXCEPT !.peer_id = PeerOf(n)]
                    r == UpdateUser(users[n], refreshed)
                IN  /\ auth' = [auth EXCEPT ![n] = refreshed]
                    /\ users' = [users EXCEPT ![n] = r.users]
                    /\ currentUserID' = [currentUserID EXCEPT
                                            ![n].friends = IF r.ok THEN user.id ELSE @,
                                            ![n].messages = IF r.ok THEN user.id ELSE @]
                    /\ result' = Result("Login", n, username,
                                        IF r.ok THEN "nil" ELSE "failed to update peer ID",
                                        "none", "", 0)
    /\ UNCHANGED <<confVars, friends, messages, alive, epoch, connected, net, retryTask, ghost,
                   calls>>

\* the GUI's App.Logout: AuthService.Logout and SetCurrentUser(0) on the friends
\* and messages managers
AppLogout(n) ==
    /\ alive[n]
    /\ auth' = [auth EXCEPT ![n] = NoUser]
    /\ currentUserID' = [currentUserID EXCEPT ![n].friends = 0, ![n].messages = 0]
    /\ result' = Result("Logout", n, "", "nil", "none", "", 0)
    /\ ghost' = NoneAwaited(ghost)
    /\ UNCHANGED <<confVars, users, friends, messages, alive, epoch, connected, net, retryTask, calls>>

\* P2PHost.ConnectToPeer succeeds, from either side
Connect ==
    /\ ~connected
    /\ \A n \in Nodes : alive[n]
    /\ connected' = TRUE
    /\ result' = Result("Connect", "", "", "nil", "none", "", 0)
    /\ UNCHANGED <<confVars, users, friends, messages, currentUserID, auth, alive, epoch, net,
                   retryTask, ghost, calls>>

\* the connection closes (DisconnectedF)
Disconnect ==
    /\ connected
    /\ connected' = FALSE
    /\ result' = Result("Disconnect", "", "", "nil", "none", "", 0)
    /\ ghost' = NoneAwaited(ghost)
    /\ UNCHANGED <<confVars, users, friends, messages, currentUserID, auth, alive, epoch, net,
                   retryTask, calls>>

RECURSIVE SumEpochs(_)
SumEpochs(S) == IF S = {} THEN 0
                ELSE LET n == CHOOSE x \in S : TRUE IN epoch[n] + SumEpochs(S \ {n})

\* the payloads still in flight once the process of peer p is gone
DropFor(bag, p) ==
    LET keep == {m \in BagToSet(bag) : m.dst # p}
    IN  [m \in keep |-> bag[m]]

\* the process exits and is started again: main() builds a new host with a new
\* key, a new AuthService and new managers over the same store
Restart(n) ==
    /\ SumEpochs(Nodes) < MaxRestarts
    /\ epoch' = [epoch EXCEPT ![n] = @ + 1]
    /\ alive' = [alive EXCEPT ![n] = TRUE]
    /\ connected' = FALSE
    /\ auth' = [auth EXCEPT ![n] = NoUser]
    /\ currentUserID' = [currentUserID EXCEPT ![n] = SetCurrentUser(0)]
    /\ retryTask' = [retryTask EXCEPT ![n] = 0]
    /\ net' = DropFor(net, PeerOf(n))
    /\ calls' = [i \in 1..MaxCalls |-> IF calls[i].node = n THEN NoCall ELSE calls[i]]
    /\ result' = Result("Restart", n, "", "nil", "none", "", 0)
    /\ ghost' = NoneAwaited(ghost)
    /\ engine' = [engine EXCEPT ![n] = NoEngine]
    /\ transport' = [transport EXCEPT ![n] = NoTransport(n)]
    /\ UNCHANGED <<users, friends, messages, conferences, participants, conferenceMessages,
                   confGhost>>

----------------------------------------------------------------------------
(* Friend operations and handlers, each as one atomic action *)

\* the requester->target row status a SendFriendRequest call finds at its start
\* (ghost, kept in the result)
PreStatus(n, op, arg) ==
    IF op # "SendFriendRequest" THEN ""
    ELSE LET t == GetUserByPeerID(users[n], arg)
         IN  IF auth[n].id = 0 \/ t.id = 0 THEN ""
             ELSE LET f == GetFriendRequest(friends[n], auth[n].id, t.id)
                  IN  IF f.id = 0 THEN "" ELSE f.status

ResultOf(c) == Result(c.op, c.node, c.arg, c.err, c.stream, c.pre, 0)

\* a friend call run to its return; msgs are the payloads it consumes
FriendAtomic(n, c, msgs) ==
    \E ok \in BOOLEAN :
        LET r == RunFriendCall(users[n], friends[n], currentUserID[n].friends, c, ok, <<>>)
        IN  /\ r.call.stream = "sent" => CanStream(n, StreamPeer(r.call))
            /\ r.call.stream = "failed" => ~ok
            /\ r.call.stream = "none" => ~ok
            /\ InFlight - Len(msgs) + Len(r.out) <= MaxInFlight
            /\ users' = [users EXCEPT ![n] = r.users]
            /\ friends' = [friends EXCEPT ![n] = r.friends]
            /\ net' = Put(IF msgs = <<>> THEN net ELSE Take1(net, msgs[1]), r.out)
            /\ result' = ResultOf(r.call)
            /\ ghost' = [ghost EXCEPT ![n] = Requested(@, r.out)]
            /\ UNCHANGED <<confVars, messages, currentUserID, auth, alive, epoch, connected,
                           retryTask, calls>>

\* the shell's add / add-peer command
SendFriendRequest(n, target) ==
    /\ alive[n]
    /\ auth[n].id # 0
    /\ FriendAtomic(n, NewCall("SendFriendRequest", n, target, NoWire, auth[n],
                               PreStatus(n, "SendFriendRequest", target)), <<>>)

\* the shell's accept command
AcceptFriendRequest(n, fromUsername) ==
    /\ alive[n]
    /\ auth[n].id # 0
    /\ FriendAtomic(n, NewCall("AcceptFriendRequest", n, fromUsername, NoWire, auth[n], ""), <<>>)

\* the shell's reject command
RejectFriendRequest(n, fromUsername) ==
    /\ alive[n]
    /\ auth[n].id # 0
    /\ FriendAtomic(n, NewCall("RejectFriendRequest", n, fromUsername, NoWire, auth[n], ""), <<>>)

HandlerOf(kind) ==
    CASE kind = "friend/request" -> "handleIncomingRequest"
      [] kind = "friend/accept"  -> "handleIncomingAccept"
      [] kind = "friend/reject"  -> "handleIncomingReject"

FriendKinds == {"friend/request", "friend/accept", "friend/reject"}

Inbox(n, kinds) == {m \in BagToSet(net) : m.dst = PeerOf(n) /\ m.kind \in kinds}

\* Protocol.HandleFriendRequest -> Manager.handleIncomingRequest
handleIncomingRequest(n) ==
    /\ alive[n]
    /\ \E m \in Inbox(n, {"friend/request"}) :
          FriendAtomic(n, NewCall("handleIncomingRequest", n, m.username, m, NoUser, ""), <<m>>)

\* Protocol.HandleFriendAccept -> Manager.handleIncomingAccept
handleIncomingAccept(n) ==
    /\ alive[n]
    /\ \E m \in Inbox(n, {"friend/accept"}) :
          FriendAtomic(n, NewCall("handleIncomingAccept", n, m.username, m, NoUser, ""), <<m>>)

\* Protocol.HandleFriendReject -> Manager.handleIncomingReject
handleIncomingReject(n) ==
    /\ alive[n]
    /\ \E m \in Inbox(n, {"friend/reject"}) :
          FriendAtomic(n, NewCall("handleIncomingReject", n, m.username, m, NoUser, ""), <<m>>)

----------------------------------------------------------------------------
(* Direct-message operations and handlers, each as one atomic action *)

\* an unrecovered nil dereference ends the process
Panic(n, op, arg) ==
    /\ alive' = [alive EXCEPT ![n] = FALSE]
    /\ connected' = FALSE
    /\ auth' = [auth EXCEPT ![n] = NoUser]
    /\ currentUserID' = [currentUserID EXCEPT ![n] = SetCurrentUser(0)]
    /\ retryTask' = [retryTask EXCEPT ![n] = 0]
    /\ result' = Result(op, n, arg, "panic", "none", "", 0)
    /\ net' = DropFor(net, PeerOf(n))
    /\ ghost' = NoneAwaited(ghost)
    /\ UNCHANGED epoch

\* ghost: the sender-side id of the message a local row is the copy of
Ref(n, id) ==
    IF \E p \in ghost[n].origin : p[1] = id
    THEN (CHOOSE p \in ghost[n].origin : p[1] = id)[2]
    ELSE 0

\* Manager.SendMessage(currentUser, toUsername, content), from the shell's msg command
SendMessage(n, toUsername, content) ==
    /\ alive[n]
    /\ auth[n].id # 0
    /\ Len(SelectSeq(messages[n], LAMBDA m : m.from_user_id = auth[n].id)) < MaxMessages
    /\ LET currentUser == auth[n]
           toUser == GetUserByUsername(users[n], toUsername)
       IN  IF toUser.id = 0
           THEN /\ Panic(n, "SendMessage", toUsername)
                /\ UNCHANGED <<confVars, users, friends, messages, calls>>
           ELSE IF ~IsFriend(friends[n], currentUser.id, toUser.id)
           THEN /\ result' = Result("SendMessage", n, toUsername, "not friends", "none", "", 0)
                /\ UNCHANGED <<confVars, users, friends, messages, currentUserID, auth, alive, epoch,
                               connected, net, retryTask, ghost, calls>>
           ELSE \/ /\ result' = Result("SendMessage", n, toUsername, "failed to save message",
                                      "none", "", 0)
                   /\ UNCHANGED <<confVars, users, friends, messages, currentUserID, auth, alive,
                                  epoch, connected, net, retryTask, ghost, calls>>
                \/ LET saved == SaveMessage(messages[n],
                                   NewMessage(currentUser.id, toUser.id, currentUser.peer_id,
                                              toUser.peer_id, content, FALSE))
                       id == Len(saved)
                   IN  /\ ghost' = [ghost EXCEPT
                                      ![n].sent = @ \cup {id},
                                      ![n].offline = IF Connectedness(n, toUser.peer_id)
                                                     THEN @ ELSE @ \cup {id}]
                       /\ UNCHANGED <<confVars, users, friends, currentUserID, auth, alive, epoch, connected,
                                      retryTask, calls>>
                       /\ IF ~Connectedness(n, toUser.peer_id)
                          THEN /\ messages' = [messages EXCEPT ![n] = saved]
                               /\ result' = Result("SendMessage", n, toUsername, "nil", "offline", "", id)
                               /\ UNCHANGED net
                          ELSE \E ok \in BOOLEAN :
                                 /\ ok => CanStream(n, toUser.peer_id) /\ InFlight < MaxInFlight
                                 /\ IF ok
                                    THEN /\ messages' = [messages EXCEPT ![n] =
                                                            MarkMessageDelivered(saved, id, "now")]
                                         /\ net' = Put(net, <<DirectMessage(toUser.peer_id,
                                                        PeerOf(n), id, currentUser, toUser, content)>>)
                                         /\ result' = Result("SendMessage", n, toUsername, "nil", "sent", "", id)
                                    ELSE /\ messages' = [messages EXCEPT ![n] = saved]
                                         /\ result' = Result("SendMessage", n, toUsername, "nil", "failed", "", id)
                                         /\ UNCHANGED net

\* Protocol.HandleDirectMessage -> Manager.handleIncomingMessage
handleIncomingMessage(n) ==
    /\ alive[n]
    /\ \E m \in Inbox(n, {"message/direct"}) :
        LET fromUser == GetUserByUsername(users[n], m.username)
            toUser == GetUserByUsername(users[n], m.to_username)
        IN  IF fromUser.id = 0 \/ toUser.id = 0
            THEN /\ Panic(n, "handleIncomingMessage", m.username)
                 /\ UNCHANGED <<confVars, users, friends, messages, calls>>
            ELSE LET saved == SaveMessage(messages[n],
                                 NewMessage(fromUser.id, toUser.id, fromUser.peer_id,
                                            toUser.peer_id, m.content, TRUE))
                     id == Len(saved)
                 IN  /\ messages' = [messages EXCEPT ![n] = MarkMessageDelivered(saved, id, "now")]
                     /\ ghost' = [ghost EXCEPT ![n].origin = @ \cup {<<id, m.message_id>>}]
                     /\ \E ok \in BOOLEAN :
                          /\ ok => CanStream(n, m.src)
                          /\ net' = Put(Take1(net, m),
                                        IF ok THEN <<MessageAck(m.src, PeerOf(n), m.message_id)>>
                                        ELSE <<>>)
                          /\ result' = Result("handleIncomingMessage", n, m.username, "nil",
                                              IF ok THEN "sent" ELSE "failed", "", id)
                     /\ UNCHANGED <<confVars, users, friends, currentUserID, auth, alive, epoch, connected,
                                    retryTask, calls>>

\* Protocol.HandleMessageAck -> Manager.handleMessageAck
handleMessageAck(n) ==
    /\ alive[n]
    /\ \E m \in Inbox(n, {"message/ack"}) :
        /\ \E now \in Stamps(DeliveredAt(messages[n], m.message_id)) :
             messages' = [messages EXCEPT ![n] =
                           IF m.message_id > 0 THEN MarkMessageDelivered(@, m.message_id, now)
                           ELSE @]
        /\ ghost' = [ghost EXCEPT ![n].acked = @ \cup {m.message_id}]
        /\ net' = Take1(net, m)
        /\ result' = Result("handleMessageAck", n, "", "nil", "none", "", m.message_id)
    /\ UNCHANGED <<confVars, users, friends, currentUserID, auth, alive, epoch, connected, retryTask, calls>>

\* Protocol.HandleMessageRead -> Manager.handleMessageRead
handleMessageRead(n) ==
    /\ alive[n]
    /\ \E m \in Inbox(n, {"message/read"}) :
        /\ \E now \in Stamps(ReadAt(messages[n], m.message_id)) :
             messages' = [messages EXCEPT ![n] =
                           IF m.message_id > 0 THEN MarkMessageRead(@, m.message_id, now)
                           ELSE @]
        /\ net' = Take1(net, m)
        /\ result' = [Result("handleMessageRead", n, "", "nil", "none", "", m.message_id)
                        EXCEPT !.ref = m.ref]
    /\ UNCHANGED <<confVars, users, friends, currentUserID, auth, alive, epoch, connected, retryTask,
                   ghost, calls>>

\* the loop of MarkAsRead over the conversation page: marks every unread message
\* of fromUser and writes a receipt for those whose stream opens (ids in oks)
RECURSIVE MarkAsReadLoop(_, _, _, _, _, _)
MarkAsReadLoop(n, page, fromUser, oks, ms, out) ==
    IF page = <<>> THEN [messages |-> ms, out |-> out]
    ELSE LET msg == Head(page)
         IN  IF msg.from_user_id = fromUser.id /\ ~msg.read
             THEN MarkAsReadLoop(n, Tail(page), fromUser, oks,
                     MarkMessageRead(ms, msg.id, "now"),
                     IF Connectedness(n, fromUser.peer_id) /\ msg.id \in oks
                     THEN Append(out, [MessageRead(fromUser.peer_id, PeerOf(n), msg.id)
                                         EXCEPT !.ref = Ref(n, msg.id)])
                     ELSE out)
             ELSE MarkAsReadLoop(n, Tail(page), fromUser, oks, ms, out)

\* Manager.MarkAsRead(currentUser, fromUsername), from the shell's history
\* command, which returns before the call when the user is not found
MarkAsRead(n, fromUsername) ==
    /\ alive[n]
    /\ auth[n].id # 0
    /\ LET currentUser == auth[n]
           fromUser == GetUserByUsername(users[n], fromUsername)
           page == GetMessages(messages[n], currentUser.id, fromUser.id, ConversationLimit)
           unread == {page[i].id : i \in {j \in 1..Len(page) :
                          page[j].from_user_id = fromUser.id /\ ~page[j].read}}
       IN  /\ fromUser.id # 0
           /\ \E oks \in SUBSET unread :
                LET r == MarkAsReadLoop(n, page, fromUser, oks, messages[n], <<>>)
                IN  /\ oks # {} => CanStream(n, fromUser.peer_id)
                    /\ InFlight + Len(r.out) <= MaxInFlight
                    /\ messages' = [messages EXCEPT ![n] = r.messages]
                    /\ net' = Put(net, r.out)
                    /\ result' = Result("MarkAsRead", n, fromUsername, "nil",
                                        IF r.out = <<>> THEN "none" ELSE "sent", "", 0)
    /\ UNCHANGED <<confVars, users, friends, currentUserID, auth, alive, epoch, connected, retryTask,
                   ghost, calls>>

\* the loop of RetryUndeliveredMessages over the undelivered rows
RECURSIVE RetryLoop(_, _, _, _, _)
RetryLoop(n, queue, oks, ms, out) ==
    IF queue = <<>> THEN [messages |-> ms, out |-> out]
    ELSE LET msg == Head(queue)
             fromUser == GetUserByID(users[n], msg.from_user_id)
             toUser == GetUserByID(users[n], msg.to_user_id)
         IN  IF Connectedness(n, toUser.peer_id) /\ msg.id \in oks
             THEN RetryLoop(n, Tail(queue), oks, MarkMessageDelivered(ms, msg.id, "now"),
                     Append(out, DirectMessage(toUser.peer_id, PeerOf(n), msg.id,
                                               fromUser, toUser, msg.content)))
             ELSE RetryLoop(n, Tail(queue), oks, ms, out)

\* Manager.RetryUndeliveredMessages(currentUserID), the goroutine spawned by login
RetryUndeliveredMessages(n) ==
    /\ alive[n]
    /\ retryTask[n] # 0
    /\ LET queue == GetUndeliveredMessages(messages[n], retryTask[n])
           ids == {queue[i].id : i \in 1..Len(queue)}
       IN  \E oks \in SUBSET ids :
             LET r == RetryLoop(n, queue, oks, messages[n], <<>>)
             IN  /\ \A i \in 1..Len(r.out) : CanStream(n, r.out[i].dst)
                 /\ InFlight + Len(r.out) <= MaxInFlight
                 /\ messages' = [messages EXCEPT ![n] = r.messages]
                 /\ net' = Put(net, r.out)
                 /\ result' = Result("RetryUndeliveredMessages", n, "", "nil",
                                     IF r.out = <<>> THEN "none" ELSE "sent", "", Len(queue))
    /\ retryTask' = [retryTask EXCEPT ![n] = 0]
    /\ UNCHANGED <<confVars, users, friends, currentUserID, auth, alive, epoch, connected, ghost, calls>>

----------------------------------------------------------------------------
(* Tables conferences, conference_participants, conference_messages *)

ConfNames == {"team"}

NoConference == [id |-> 0, name |-> "", creator_id |-> 0]

\* INSERT INTO conferences (name, creator_id): AUTOINCREMENT id, rows are
\* never deleted
CreateConference(cs, name, creator) ==
    Append(cs, [id |-> Len(cs) + 1, name |-> name, creator_id |-> creator])

\* SELECT ... FROM conferences WHERE id = ?; (nil, nil) when there is no row
GetConference(cs, id) ==
    IF \E i \in 1..Len(cs) : cs[i].id = id
    THEN cs[CHOOSE i \in 1..Len(cs) : cs[i].id = id]
    ELSE NoConference

\* INSERT INTO conference_participants (conference_id, user_id, peer_id,
\* username, active): left_at is not in the column list and stays NULL
AddConferenceParticipant(ps, c, u) ==
    Append(ps, [id |-> Len(ps) + 1, conference_id |-> c, user_id |-> u.id,
                peer_id |-> u.peer_id, username |-> u.username,
                left_at |-> "NULL", active |-> TRUE])

\* UPDATE conference_participants SET active = 0, left_at = CURRENT_TIMESTAMP
\* WHERE conference_id = ? AND user_id = ?
RemoveConferenceParticipant(ps, c, uid) ==
    [i \in 1..Len(ps) |->
        IF ps[i].conference_id = c /\ ps[i].user_id = uid
        THEN [ps[i] EXCEPT !.active = FALSE, !.left_at = "now"]
        ELSE ps[i]]

\* rows.Scan(..., &p.LeftAt, ...) with LeftAt a time.Time: database/sql does
\* not store a NULL into a time.Time, Scan returns an error and the query
\* returns (nil, err) at the first selected row whose left_at is NULL
ScanParticipant(p) == IF p.left_at = "NULL" THEN "scan error" ELSE "nil"

\* SELECT ... FROM conference_participants WHERE conference_id = ? AND active = 1
GetConferenceParticipants(ps, c) ==
    LET sel == SelectSeq(ps, LAMBDA p : p.conference_id = c /\ p.active)
    IN  IF \E i \in 1..Len(sel) : ScanParticipant(sel[i]) # "nil"
        THEN [err |-> "scan error", rows |-> <<>>]
        ELSE [err |-> "nil", rows |-> sel]

\* INSERT INTO conference_messages (conference_id, from_user_id, from_peer_id,
\* content): created_at is not in the column list and takes its default,
\* CURRENT_TIMESTAMP, the time now of the insert
SaveConferenceMessage(ms, c, uid, p, content, now) ==
    Append(ms, [id |-> Len(ms) + 1, conference_id |-> c, from_user_id |-> uid,
                from_peer_id |-> p, content |-> content, created_at |-> now])

----------------------------------------------------------------------------
(* The conference engine *)

\* fmt.Sprintf("/whisper/conf/%d", conferenceID)
TopicName(c) == <<"/whisper/conf/", c>>

\* a peer of the network that runs another build of the protocol
Remote == [id |-> 0, username |-> "eve", full_name |-> "Eve Stone", peer_id |-> "pE0"]

\* ConferenceGossipMessage{ConferenceID, FromUsername, FromFullName, FromPeerID,
\* Content} as pubsub hands it to a subscription; received_from is the peer
\* it was received from (meant is a ghost field: the node whose conference
\* the publisher is a member of)
GossipMessage(from, c, cur, content, ts, meant) ==
    [received_from |-> from, conference_id |-> c, from_username |-> cur.username,
     from_peer_id |-> cur.peer_id, content |-> content, timestamp |-> ts, meant |-> meant]

NoGossip == GossipMessage("", 0, NoUser, "", 0, "")

\* readings of the clock, in seconds: time.Now().Unix() when a message is
\* published, CURRENT_TIMESTAMP when a row is inserted
PublishTimes == {1}

Times == {1, 2}

\* ghost: what is remembered of a saved conference_messages row: the conference
\* of the subscription (or send) it came by, the payload's content and
\* timestamp, the ids left at that moment
Saved(by, via, msg, left) ==
    [by |-> by, via |-> via, meant |-> msg.meant, content |-> msg.content,
     timestamp |-> msg.timestamp, left |-> left]

\* ConferenceInvite{ConferenceID, ConferenceName, FromUsername, FromFullName, FromPeerID}
ConferenceInvite(dst, cur, conf) ==
    Wire("conference/invite", dst, cur.peer_id, cur.username, cur.full_name, cur.peer_id,
         conf.id, "", conf.name)

\* the Subscription objects of the process that are open on a topic
LiveSubs(eng, t) == {h \in 1..Len(eng.subs) : eng.subs[h].topic = t /\ ~eng.subs[h].cancelled}

\* SubscribeToConference: nothing to do when the map has an entry; else
\* pubsub.Join (refused while the process holds a handle of that topic),
\* topic.Subscribe, both map entries, go listenToConference
SubscribeToConference(eng, c) ==
    IF eng.subscriptions[c] # 0 THEN [err |-> "nil", eng |-> eng]
    ELSE IF LiveSubs(eng, TopicName(c)) # {}
         THEN [err |-> "failed to join topic", eng |-> eng]
         ELSE LET h == Len(eng.subs) + 1
              IN  [err |-> "nil",
                   eng |-> [subscriptions |-> [eng.subscriptions EXCEPT ![c] = h],
                            topics |-> [eng.topics EXCEPT ![c] = h],
                            subs |-> Append(eng.subs, [topic |-> TopicName(c), ch |-> <<>>,
                                                       cancelled |-> FALSE]),
                            tasks |-> Append(eng.tasks, [conferenceID |-> c, sub |-> h,
                                                         pc |-> "next", msg |-> NoGossip])]]

\* an unsubscribe that forgets the subscription without cancelling it
UnsubscribeNoCancel(eng, c) ==
    [eng EXCEPT !.subscriptions[c] = 0, !.topics[c] = 0]

\* an unsubscribe that keeps the topic handle
UnsubscribeKeepTopic(eng, c) ==
    LET h == eng.subscriptions[c]
    IN  IF h # 0 THEN [eng EXCEPT !.subs[h].cancelled = TRUE, !.subscriptions[c] = 0]
        ELSE eng

\* the second half of LeaveConference: sub.Cancel() and delete from
\* subscriptions, topic.Close() and delete from topics.  Cancel closes the
\* subscription's channel; what is buffered in it stays readable
Unsubscribe(eng, c) ==
    LET h == eng.subscriptions[c]
        e1 == IF h # 0 THEN [eng EXCEPT !.subs[h].cancelled = TRUE, !.subscriptions[c] = 0]
              ELSE eng
    IN  [e1 EXCEPT !.topics[c] = 0]

\* topic.Publish: the message reaches the publisher's own subscription and,
\* over an open connection, the subscriptions of the other node on that topic
Deliver(engs, n, t, msg) ==
    [m \in Nodes |->
        IF m = n \/ (connected /\ alive[m])
        THEN [engs[m] EXCEPT !.subs = [h \in 1..Len(@) |->
                 IF h \in LiveSubs(engs[m], t) THEN [@[h] EXCEPT !.ch = Append(@, msg)]
                 ELSE @[h]]]
        ELSE engs[m]]

\* the variables no conference operation writes
baseVars == <<users, friends, messages, currentUserID, auth, alive, epoch, connected,
              retryTask, ghost, calls, transport>>

\* ghost: the conference is subscribed (again)
Rejoined(g, c) == [g EXCEPT !.left = @ \ {c}]

\* create-conf <name>: Manager.CreateConference
ManagerCreateConference(n, name) ==
    /\ alive[n] /\ auth[n].id # 0
    /\ Len(conferences[n]) < MaxConfs
    /\ Len(engine[n].subs) < MaxSubs
    /\ IF currentUserID[n].conference = 0
       THEN /\ result' = Result("CreateConference", n, name, "not authenticated", "none", "", 0)
            /\ UNCHANGED confVars
       ELSE LET cs  == CreateConference(conferences[n], name, auth[n].id)
                id  == Len(cs)
                sub == SubscribeToConference(engine[n], id)
            IN  /\ conferences' = [conferences EXCEPT ![n] = cs]
                /\ participants' = [participants EXCEPT ![n] =
                                        AddConferenceParticipant(@, id, auth[n])]
                /\ engine' = [engine EXCEPT ![n] = sub.eng]
                /\ confGhost' = [confGhost EXCEPT ![n] =
                                    IF sub.err = "nil" THEN Rejoined(@, id) ELSE @]
                /\ result' = Result("CreateConference", n, name, sub.err, "none", "", id)
                /\ UNCHANGED conferenceMessages
    /\ UNCHANGED <<baseVars, net>>

\* the checks of InviteToConference before it opens a stream, in their order
InviteCheck(n, c, username) ==
    LET conf   == GetConference(conferences[n], c)
        ps     == GetConferenceParticipants(participants[n], c)
        friend == GetUserByUsername(users[n], username)
    IN  IF conf.id = 0 THEN "conference not found"
        ELSE IF ps.err # "nil" THEN "failed to get participants"
        ELSE IF ~\E i \in 1..Len(ps.rows) :
                    ps.rows[i].user_id = auth[n].id /\ ps.rows[i].active
             THEN "not a participant"
        ELSE IF friend.id = 0 THEN "user not found"
        ELSE IF ~IsFriend(friends[n], auth[n].id, friend.id) THEN "not friends"
        ELSE IF \E i \in 1..Len(ps.rows) :
                    ps.rows[i].user_id = friend.id /\ ps.rows[i].active
             THEN "already in conference"
        ELSE IF ~Connectedness(n, friend.peer_id) THEN "not online"
        ELSE "nil"

\* invite-conf <conference-id> <username>: Manager.InviteToConference
InviteToConference(n, c, username) ==
    /\ alive[n] /\ auth[n].id # 0
    /\ LET e      == InviteCheck(n, c, username)
           friend == GetUserByUsername(users[n], username)
           conf   == GetConference(conferences[n], c)
       IN  IF e # "nil"
           THEN /\ result' = Result("InviteToConference", n, username, e, "none", "", c)
                /\ UNCHANGED net
           ELSE \/ /\ CanStream(n, friend.peer_id)
                   /\ InFlight < MaxInFlight
                   /\ net' = Put(net, <<ConferenceInvite(friend.peer_id, auth[n], conf)>>)
                   /\ result' = Result("InviteToConference", n, username, "nil", "sent", "", c)
                \/ /\ result' = Result("InviteToConference", n, username,
                                       "failed to open stream", "none", "", c)
                   /\ UNCHANGED net
    /\ UNCHANGED <<baseVars, confVars>>

\* the invites a peer running another build can send to node n
RemoteInvites(n) ==
    {ConferenceInvite(PeerOf(n), Remote, [id |-> c, name |-> name, creator_id |-> 0]) :
        c \in ConfIds, name \in ConfNames}

\* HandleConferenceInvite and handleIncomingInvite: the invite is printed,
\* nothing is stored (ghost: its conference id is remembered)
handleIncomingInvite(n) ==
    /\ alive[n]
    /\ \E m \in Inbox(n, {"conference/invite"}) \cup RemoteInvites(n) :
          /\ net' = IF m \in BagToSet(net) THEN Take1(net, m) ELSE net
          /\ confGhost' = [confGhost EXCEPT ![n].invited = @ \cup {m.message_id}]
          /\ result' = Result("handleIncomingInvite", n, m.username, "nil", "none", "",
                              m.message_id)
    /\ UNCHANGED <<baseVars, conferences, participants, conferenceMessages, engine>>

\* the outcome of JoinConference before it writes anything
JoinCheck(n, c) ==
    LET conf == GetConference(conferences[n], c)
        ps   == GetConferenceParticipants(participants[n], c)
    IN  IF conf.id = 0 THEN "conference not found"
        ELSE IF ps.err # "nil" THEN "failed to get participants"
        ELSE IF \E i \in 1..Len(ps.rows) :
                    ps.rows[i].user_id = auth[n].id /\ ps.rows[i].active
             THEN "already in conference"
        ELSE "nil"

\* join-conf <conference-id>: Manager.JoinConference
JoinConference(n, c) ==
    /\ alive[n] /\ auth[n].id # 0
    /\ LET e == JoinCheck(n, c)
       IN  IF e # "nil"
           THEN /\ result' = Result("JoinConference", n, "", e, "none", "", c)
                /\ UNCHANGED confVars
           ELSE LET sub == SubscribeToConference(engine[n], c)
                IN  /\ engine[n].subscriptions[c] = 0 => Len(engine[n].subs) < MaxSubs
                    /\ participants' = [participants EXCEPT ![n] =
                                            AddConferenceParticipant(@, c, auth[n])]
                    /\ engine' = [engine EXCEPT ![n] = sub.eng]
                    /\ confGhost' = [confGhost EXCEPT ![n] =
                                        IF sub.err = "nil" THEN Rejoined(@, c) ELSE @]
                    /\ result' = Result("JoinConference", n, "", sub.err, "none", "", c)
                    /\ UNCHANGED <<conferences, conferenceMessages>>
    /\ UNCHANGED <<baseVars, net>>

\* the outcome of Manager.SendMessage before it publishes
SendCheck(n, c) ==
    LET ps == GetConferenceParticipants(participants[n], c)
    IN  IF ps.err # "nil" THEN "failed to get participants"
        ELSE IF ~\E i \in 1..Len(ps.rows) :
                    ps.rows[i].user_id = auth[n].id /\ ps.rows[i].active
             THEN "not a participant"
        ELSE IF engine[n].topics[c] = 0 THEN "not subscribed"
        ELSE "nil"

\* conf-msg <conference-id> <message>: Manager.SendMessage of the conference
\* engine: publish, then save the local copy
ManagerSendMessage(n, c, content) ==
    /\ alive[n] /\ auth[n].id # 0
    /\ LET e == SendCheck(n, c)
       IN  IF e # "nil"
           THEN /\ result' = Result("ConferenceSendMessage", n, "", e, "none", "", c)
                /\ UNCHANGED confVars
           ELSE \E ts \in PublishTimes, now \in Times, published \in BOOLEAN, saved \in BOOLEAN :
                  LET msg == GossipMessage(PeerOf(n), c, auth[n], content, ts, n)
                  IN  /\ now >= ts
                      /\ IF ~published
                         THEN /\ result' = Result("ConferenceSendMessage", n, "",
                                                  "failed to publish message", "none", "", c)
                              /\ UNCHANGED confVars
                         ELSE /\ engine' = Deliver(engine, n, TopicName(c), msg)
                              /\ conferenceMessages' = [conferenceMessages EXCEPT ![n] =
                                    IF saved
                                    THEN SaveConferenceMessage(@, c, auth[n].id,
                                                               auth[n].peer_id, content, now)
                                    ELSE @]
                              /\ confGhost' = [confGhost EXCEPT ![n].rows =
                                    IF saved
                                    THEN Append(@, Saved("send", c, msg, confGhost[n].left))
                                    ELSE @]
                              /\ result' = Result("ConferenceSendMessage", n, "", "nil",
                                                  IF saved THEN "sent" ELSE "failed", "", c)
                              /\ UNCHANGED <<conferences, participants>>
    /\ UNCHANGED <<baseVars, net>>

\* leave-conf <conference-id>: Manager.LeaveConference.  It returns nil
\* whatever the id; it does not wait for the listener
LeaveConference(n, c) ==
    /\ alive[n] /\ auth[n].id # 0
    /\ participants' = [participants EXCEPT ![n] =
                            RemoveConferenceParticipant(@, c, auth[n].id)]
    /\ engine' = [engine EXCEPT ![n] = Unsubscribe(@, c)]
    /\ confGhost' = [confGhost EXCEPT ![n].left = @ \cup {c}]
    /\ result' = Result("LeaveConference", n, "", "nil", "none", "", c)
    /\ UNCHANGED <<baseVars, net, conferences, conferenceMessages>>

\* a message published by a peer of the mesh on the topic of conference id c
\* reaches the subscriptions node n holds on that topic.  The payload is the
\* publisher's: its conference_id is any id
Gossip(n, c, cid, meant) ==
    \E ts \in PublishTimes :
    /\ alive[n]
    /\ confGhost[n].heard < MaxGossip
    /\ LiveSubs(engine[n], TopicName(c)) # {}
    /\ GetConference(conferences[meant], c).id # 0
    /\ engine' = [engine EXCEPT ![n].subs = [h \in 1..Len(@) |->
                     IF h \in LiveSubs(engine[n], TopicName(c))
                     THEN [@[h] EXCEPT !.ch =
                              Append(@, GossipMessage(Remote.peer_id, cid, Remote, "hi", ts,
                                                      meant))]
                     ELSE @[h]]]
    /\ confGhost' = [confGhost EXCEPT ![n].heard = @ + 1]
    /\ UNCHANGED <<baseVars, net, result, conferences, participants, conferenceMessages>>

\* listenToConference, sub.Next: the next buffered message, or the error of a
\* cancelled subscription once its buffer is empty, at which the goroutine
\* returns; a message received from the host itself is skipped
ListenerNext(n, i) ==
    /\ alive[n]
    /\ i \in 1..Len(engine[n].tasks)
    /\ engine[n].tasks[i].pc = "next"
    /\ LET s == engine[n].subs[engine[n].tasks[i].sub]
       IN  IF s.ch # <<>>
           THEN engine' = [engine EXCEPT
                    ![n].subs[engine[n].tasks[i].sub].ch = Tail(@),
                    ![n].tasks[i] = IF Head(s.ch).received_from = PeerOf(n) THEN @
                                    ELSE [@ EXCEPT !.pc = "save", !.msg = Head(s.ch)]]
           ELSE /\ s.cancelled
                /\ engine' = [engine EXCEPT ![n].tasks[i].pc = "done"]
    /\ UNCHANGED <<baseVars, net, result, conferences, participants, conferenceMessages,
                   confGhost>>

\* listenToConference, the rest of the loop body: the row is built from the
\* payload (ConferenceID: gossipMsg.ConferenceID), the sender is looked up by
\* the payload's peer id, the row is saved
ListenerSave(n, i) ==
    /\ alive[n]
    /\ i \in 1..Len(engine[n].tasks)
    /\ engine[n].tasks[i].pc = "save"
    /\ LET t        == engine[n].tasks[i]
           fromUser == GetUserByPeerID(users[n], t.msg.from_peer_id)
       IN  /\ \E now \in Times :
                  /\ now >= t.msg.timestamp
                  /\ conferenceMessages' = [conferenceMessages EXCEPT ![n] =
                         SaveConferenceMessage(@, t.msg.conference_id, fromUser.id,
                                               t.msg.from_peer_id, t.msg.content, now)]
           /\ confGhost' = [confGhost EXCEPT ![n].rows =
                  Append(@, Saved("listen", t.conferenceID, t.msg, confGhost[n].left))]
           /\ engine' = [engine EXCEPT ![n].tasks[i] = [@ EXCEPT !.pc = "next", !.msg = NoGossip]]
    /\ UNCHANGED <<baseVars, net, result, conferences, participants>>

\* the conference commands of the shells of the nodes in S, their invite
\* handlers and their listeners
ConferenceNext(S) ==
    \/ \E n \in S, name \in ConfNames : ManagerCreateConference(n, name)
    \/ \E n \in S, c \in ConfIds : \E u \in Usernames(n) : InviteToConference(n, c, u)
    \/ \E n \in S : handleIncomingInvite(n)
    \/ \E n \in S, c \in ConfIds : JoinConference(n, c)
    \/ \E n \in S, c \in ConfIds, content \in Contents : ManagerSendMessage(n, c, content)
    \/ \E n \in S, c \in ConfIds : LeaveConference(n, c)
    \/ \E n \in S, c \in ConfIds, cid \in ConfIds, meant \in Nodes : Gossip(n, c, cid, meant)
    \/ \E n \in S, i \in 1..MaxSubs : ListenerNext(n, i)
    \/ \E n \in S, i \in 1..MaxSubs : ListenerSave(n, i)

----------------------------------------------------------------------------
(* Specifications.  The complete transition relation is Next; the           *)
(* specifications that are explored are slices of it.                       *)

SessionNext ==
    \/ \E n \in Nodes : Register(n)
    \/ \E n \in Nodes : \E u \in Usernames(n), pw \in Passwords : Login(n, u, pw)
    \/ \E n \in Nodes : Logout(n)
    \/ Connect
    \/ Disconnect

FriendNext ==
    \/ \E n \in Nodes, p \in Peers : SendFriendRequest(n, p)
    \/ \E n \in Nodes : \E u \in Usernames(n) : AcceptFriendRequest(n, u)
    \/ \E n \in Nodes : \E u \in Usernames(n) : RejectFriendRequest(n, u)
    \/ \E n \in Nodes : handleIncomingRequest(n)
    \/ \E n \in Nodes : handleIncomingAccept(n)
    \/ \E n \in Nodes : handleIncomingReject(n)

MessageNext ==
    \/ \E n \in Nodes : \E u \in Usernames(n), c \in Contents : SendMessage(n, u, c)
    \/ \E n \in Nodes : handleIncomingMessage(n)
    \/ \E n \in Nodes : handleMessageAck(n)
    \/ \E n \in Nodes : handleMessageRead(n)
    \/ \E n \in Nodes : \E u \in Usernames(n) : MarkAsRead(n, u)
    \/ \E n \in Nodes : RetryUndeliveredMessages(n)

\* every operation and handler, each atomic
Next ==
    \/ SessionNext
    \/ \E n \in Nodes : Restart(n)
    \/ FriendNext
    \/ MessageNext
    \/ ConferenceNext(Nodes)

Spec == Init /\ [][Next]_vars

\* the friend protocol between two processes that keep their identities
NextFriends ==
    \/ SessionNext
    \/ FriendNext

SpecFriends == Init /\ [][NextFriends]_vars

\* the friend protocol with restarts: identities rotate
NextRotate ==
    \/ SessionNext
    \/ \E n \in Nodes : Restart(n)
    \/ FriendNext

SpecRotate == Init /\ [][NextRotate]_vars

----------------------------------------------------------------------------
(* The friend operations one store call at a time.  The GUI binds each      *)
(* operation to a method the frontend may call while another is running,    *)
(* and every stream handler runs in a goroutine of its own.                 *)

\* the lowest free slot of calls
FreeSlot == CHOOSE i \in 1..MaxCalls :
                /\ calls[i].pc = "idle"
                /\ \A j \in 1..(i - 1) : calls[j].pc # "idle"

\* a call is entered: its locals are allocated, nothing is read yet
BeginCall(n, c, msgs) ==
    /\ alive[n]
    /\ \E i \in 1..MaxCalls : calls[i].pc = "idle"
    /\ calls' = [calls EXCEPT ![FreeSlot] = c]
    /\ net' = IF msgs = <<>> THEN net ELSE Take1(net, msgs[1])
    /\ result' = NoResult
    /\ UNCHANGED <<confVars, users, friends, messages, currentUserID, auth, alive, epoch, connected,
                   retryTask, ghost>>

\* App.SendFriendRequest -> Manager.SendFriendRequest
CallSendFriendRequest(n, target) ==
    /\ auth[n].id # 0
    /\ BeginCall(n, NewCall("SendFriendRequest", n, target, NoWire, auth[n],
                            PreStatus(n, "SendFriendRequest", target)), <<>>)

\* App.AcceptFriendRequest -> Manager.AcceptFriendRequest
CallAcceptFriendRequest(n, fromUsername) ==
    /\ auth[n].id # 0
    /\ BeginCall(n, NewCall("AcceptFriendRequest", n, fromUsername, NoWire, auth[n], ""), <<>>)

\* App.RejectFriendRequest -> Manager.RejectFriendRequest
CallRejectFriendRequest(n, fromUsername) ==
    /\ auth[n].id # 0
    /\ BeginCall(n, NewCall("RejectFriendRequest", n, fromUsername, NoWire, auth[n], ""), <<>>)

\* a stream handler of the friend protocol decodes its payload and enters the
\* manager's handler
DispatchFriendMessage(n) ==
    \E m \in Inbox(n, FriendKinds) :
        BeginCall(n, NewCall(HandlerOf(m.kind), n, m.username, m, NoUser, ""), <<m>>)

\* the next store call (or the stream write) of a call in progress
StepCall(i) ==
    LET c == calls[i]
        n == c.node
    IN  /\ c.pc \notin {"idle", "done"}
        /\ \E ok \in BOOLEAN :
             LET r == FriendStep(users[n], friends[n], currentUserID[n].friends, c, ok)
             IN  /\ ok => /\ c.pc = "stream"
                          /\ CanStream(n, StreamPeer(c))
                          /\ InFlight < MaxInFlight
                 /\ users' = [users EXCEPT ![n] = r.users]
                 /\ friends' = [friends EXCEPT ![n] = r.friends]
                 /\ net' = Put(net, r.out)
                 /\ calls' = [calls EXCEPT ![i] = IF r.call.pc = "done" THEN NoCall ELSE r.call]
                 /\ result' = IF r.call.pc = "done" THEN ResultOf(r.call) ELSE NoResult
                 /\ ghost' = [ghost EXCEPT ![n] = Requested(@, r.out)]
        /\ UNCHANGED <<confVars, messages, currentUserID, auth, alive, epoch, connected, retryTask>>


----------------------------------------------------------------------------
(* Direct messaging between two users who have met.  The stores the         *)
(* messaging slice starts from are computed by running the friend           *)
(* operations above in the order of a session of the two shells.            *)

\* a friend call made with the stream opening
Ran(us, fs, cur, op, n, arg, msg) ==
    RunFriendCall(us, fs, cur.id, NewCall(op, n, arg, msg, cur, ""), TRUE, <<>>)

\* the two stores, identities and sessions at one point of a shell session
Stores(uA, fA, uB, fB, eA, curA, curB) ==
    [users |-> [A |-> uA, B |-> uB], friends |-> [A |-> fA, B |-> fB],
     epoch |-> [A |-> eA, B |-> 0], auth |-> [A |-> curA, B |-> curB]]

\* register and login on both nodes
StoreA0 == CreateUser(<<>>, NewUser("alice", HashPassword("password1"),
                                    FullNameOf("alice"), Identities.A[1])).users

StoreB0 == CreateUser(<<>>, NewUser("bob", HashPassword("password1"),
                                    FullNameOf("bob"), Identities.B[1])).users

Alice == GetUserByUsername(StoreA0, "alice")

Bob == GetUserByUsername(StoreB0, "bob")

\* the state a shell session leaves behind: both users logged in, the connection
\* open, every payload handled, the login retry tasks finished, no message yet
Start(st) ==
    /\ ConfInit
    /\ users = st.users
    /\ friends = st.friends
    /\ epoch = st.epoch
    /\ auth = st.auth
    /\ currentUserID = [n \in Nodes |-> SetCurrentUser(st.auth[n].id)]
    /\ alive = [n \in Nodes |-> TRUE]
    /\ connected = TRUE
    /\ net = EmptyBag
    /\ retryTask = [n \in Nodes |-> 0]
    /\ messages = [n \in Nodes |-> <<>>]
    /\ result = NoResult
    /\ ghost = [n \in Nodes |-> NoGhost]
    /\ calls = [i \in 1..MaxCalls |-> NoCall]

\* A adds B's peer id, B handles the request and accepts, A handles the accept:
\* A knows B under the placeholder username
InitPlaceholder ==
    \E p1 \in {Ran(StoreA0, <<>>, Alice, "SendFriendRequest", "A", Bob.peer_id, NoWire)} :
    \E p2 \in {Ran(StoreB0, <<>>, Bob, "handleIncomingRequest", "B", "alice", p1.out[1])} :
    \E p3 \in {Ran(p2.users, p2.friends, Bob, "AcceptFriendRequest", "B", "alice", NoWire)} :
    \E p4 \in {Ran(p1.users, p1.friends, Alice, "handleIncomingAccept", "A", "bob", p3.out[1])} :
        Start(Stores(p4.users, p4.friends, p3.users, p3.friends, 0, Alice, Bob))

\* B adds A's peer id and A handles the request; A restarts with a new identity,
\* logs in and adds B's peer id; B handles the request: each knows the other's
\* username.  Then B accepts, and A handles the accept; or B adds A's new peer
\* id, A handles the request, and B accepts.
InitMet ==
    \E s1 \in {Ran(StoreB0, <<>>, Bob, "SendFriendRequest", "B", Alice.peer_id, NoWire)} :
    \E s2 \in {Ran(StoreA0, <<>>, Alice, "handleIncomingRequest", "A", "bob", s1.out[1])} :
    \E a1 \in {UpdateUser(s2.users, [Alice EXCEPT !.peer_id = Identities.A[2]]).users} :
    \E alice \in {GetUserByUsername(a1, "alice")} :
    \E s3 \in {Ran(a1, s2.friends, alice, "SendFriendRequest", "A", Bob.peer_id, NoWire)} :
    \E s4 \in {Ran(s1.users, s1.friends, Bob, "handleIncomingRequest", "B", "alice", s3.out[1])} :
        \/ Start(Stores(s3.users, s3.friends, s4.users, s4.friends, 1, alice, Bob))
        \/ \E s5 \in {Ran(s4.users, s4.friends, Bob, "AcceptFriendRequest", "B", "alice", NoWire)} :
            \/ Start(Stores(s3.users, s3.friends, s5.users, s5.friends, 1, alice, Bob))
            \/ \E s6 \in {Ran(s3.users, s3.friends, alice, "handleIncomingAccept", "A", "bob",
                               s5.out[1])} :
                  Start(Stores(s6.users, s6.friends, s5.users, s5.friends, 1, alice, Bob))
        \/ \E c1 \in {Ran(s4.users, s4.friends, Bob, "SendFriendRequest", "B", alice.peer_id,
                           NoWire)} :
           \E c2 \in {Ran(s3.users, s3.friends, alice, "handleIncomingRequest", "A", "bob",
                           c1.out[1])} :
           \E c3 \in {Ran(c1.users, c1.friends, Bob, "AcceptFriendRequest", "B", "alice", NoWire)} :
              Start(Stores(c2.users, c2.friends, c3.users, c3.friends, 1, alice, Bob))

InitMsg == InitPlaceholder \/ InitMet

NextMsg ==
    \/ \E n \in Nodes : \E u \in Usernames(n), pw \in Passwords : Login(n, u, pw)
    \/ \E n \in Nodes : Logout(n)
    \/ Connect
    \/ Disconnect
    \/ MessageNext

SpecMsg == InitMsg /\ [][NextMsg]_vars

\* both users registered and logged in, the connection open, no friend row yet
InitRace == Start(Stores(StoreA0, <<>>, StoreB0, <<>>, 0, Alice, Bob))

NextRace ==
    \/ \E n \in Nodes, p \in Peers : CallSendFriendRequest(n, p)
    \/ \E n \in Nodes : \E u \in Usernames(n) : CallAcceptFriendRequest(n, u)
    \/ \E n \in Nodes : \E u \in Usernames(n) : CallRejectFriendRequest(n, u)
    \/ \E n \in Nodes : DispatchFriendMessage(n)
    \/ \E i \in 1..MaxCalls : StepCall(i)

SpecRace == InitRace /\ [][NextRace]_vars

\* the node whose shell issues the conference commands
Hosts == {"B"}

\* the conference engine of one node, from the stores of two users who are friends
NextConf ==
    \/ Connect
    \/ Disconnect
    \/ ConferenceNext(Hosts)

SpecConf == InitMsg /\ [][NextConf]_vars

\* create, join, leave and the listeners of one node.  The listeners are
\* goroutines: the Go scheduler lets none of them wait for ever on a step it
\* can take
NextListen ==
    \/ \E n \in Hosts, name \in ConfNames : ManagerCreateConference(n, name)
    \/ \E n \in Hosts, c \in ConfIds : JoinConference(n, c)
    \/ \E n \in Hosts, c \in ConfIds : LeaveConference(n, c)
    \/ \E n \in Hosts, c \in ConfIds, cid \in ConfIds, meant \in Nodes : Gossip(n, c, cid, meant)
    \/ \E n \in Hosts, i \in 1..MaxSubs : ListenerNext(n, i)
    \/ \E n \in Hosts, i \in 1..MaxSubs : ListenerSave(n, i)

SpecListen ==
    /\ InitPlaceholder /\ [][NextListen]_vars
    /\ \A n \in Hosts, i \in 1..MaxSubs :
          WF_vars(ListenerNext(n, i)) /\ WF_vars(ListenerSave(n, i))

\* two nodes that each create conferences of their own and listen to them
NextTopics ==
    \/ \E n \in Nodes, name \in ConfNames : ManagerCreateConference(n, name)
    \/ \E n \in Nodes, c \in ConfIds, cid \in ConfIds, meant \in Nodes : Gossip(n, c, cid, meant)
    \/ \E n \in Nodes, i \in 1..MaxSubs : ListenerNext(n, i)
    \/ \E n \in Nodes, i \in 1..MaxSubs : ListenerSave(n, i)

SpecTopics == InitPlaceholder /\ [][NextTopics]_vars

----------------------------------------------------------------------------
(* The inbound direct-message handler one store call at a time.  Every      *)
(* stream handler runs in a goroutine of its own; the statements of the     *)
(* store are not grouped in a transaction.                                  *)

\* HandleDirectMessage decodes the payload and enters handleIncomingMessage
DispatchDirectMessage(n) ==
    \E m \in Inbox(n, {"message/direct"}) :
        BeginCall(n, NewCall("handleIncomingMessage", n, m.username, m, NoUser, ""), <<m>>)

\* handleIncomingMessage: the two lookups and SaveMessage (Delivered: true);
\* then MarkMessageDelivered, whose error is only printed; then the ack
StepInbound(i) ==
    LET c == calls[i]
        n == c.node
        m == c.msg
        fromUser == GetUserByUsername(users[n], m.username)
        toUser   == GetUserByUsername(users[n], m.to_username)
    IN  /\ c.op = "handleIncomingMessage"
        /\ alive[n]
        /\ CASE c.pc = "start" ->
                  IF fromUser.id = 0 \/ toUser.id = 0
                  THEN /\ Panic(n, "handleIncomingMessage", m.username)
                       /\ calls' = [j \in 1..MaxCalls |->
                                       IF calls[j].node = n THEN NoCall ELSE calls[j]]
                       /\ UNCHANGED <<confVars, users, friends, messages>>
                  ELSE LET saved == SaveMessage(messages[n],
                                       NewMessage(fromUser.id, toUser.id, fromUser.peer_id,
                                                  toUser.peer_id, m.content, TRUE))
                       IN  /\ messages' = [messages EXCEPT ![n] = saved]
                           /\ calls' = [calls EXCEPT ![i] = [c EXCEPT !.pc = "mark",
                                                                      !.id = Len(saved)]]
                           /\ ghost' = [ghost EXCEPT ![n].origin =
                                            @ \cup {<<Len(saved), m.message_id>>}]
                           /\ result' = NoResult
                           /\ UNCHANGED <<confVars, users, friends, currentUserID, auth, alive,
                                          epoch, connected, net, retryTask>>
             [] c.pc = "mark" ->
                  \E written \in BOOLEAN :
                      /\ messages' = [messages EXCEPT ![n] =
                                         IF written THEN MarkMessageDelivered(@, c.id, "now") ELSE @]
                      /\ calls' = [calls EXCEPT ![i] = [c EXCEPT !.pc = "ack"]]
                      /\ result' = NoResult
                      /\ UNCHANGED <<confVars, users, friends, currentUserID, auth, alive,
                                     epoch, connected, net, retryTask, ghost>>
             [] c.pc = "ack" ->
                  \E ok \in BOOLEAN :
                      /\ ok => CanStream(n, m.src) /\ InFlight < MaxInFlight
                      /\ net' = Put(net, IF ok THEN <<MessageAck(m.src, PeerOf(n), m.message_id)>>
                                         ELSE <<>>)
                      /\ calls' = [calls EXCEPT ![i] = NoCall]
                      /\ result' = Result("handleIncomingMessage", n, m.username, "nil",
                                          IF ok THEN "sent" ELSE "failed", "", c.id)
                      /\ UNCHANGED <<confVars, users, friends, messages, currentUserID, auth,
                                     alive, epoch, connected, retryTask, ghost>>
             [] OTHER -> FALSE

\* direct messages between two logged-in users, the receiving handler stepped
NextInbound ==
    \/ \E n \in Nodes : \E u \in Usernames(n), c \in Contents : SendMessage(n, u, c)
    \/ \E n \in Nodes : DispatchDirectMessage(n)
    \/ \E i \in 1..MaxCalls : StepInbound(i)
    \/ \E n \in Nodes : handleMessageAck(n)

SpecInbound == InitMsg /\ [][NextInbound]_vars

\* the users table under every operation that writes it, from the state where
\* both users are registered and logged in: registration again and of a second
\* local account, login after the identity rotated, placeholder creation by
\* SendFriendRequest and handleIncomingRequest, and the upgrade of a placeholder
\* by handleIncomingAccept
\* the passwords typed at login: the registered one and the placeholder string
Typed == {"password1", "P2P_REMOTE_USER"}

NextUsers ==
    \/ \E n \in Hosts : \E u \in Accounts(n) : RegisterAs(n, u)
    \/ \E n \in Hosts : \E u \in Usernames(n), pw \in Typed : Login(n, u, pw)
    \/ Connect
    \/ \E n \in Hosts : Restart(n)
    \/ \E n \in Hosts, p \in Peers : SendFriendRequest(n, p)
    \/ \E n \in Nodes \ Hosts : \E u \in Usernames(n) : AcceptFriendRequest(n, u)
    \/ \E n \in Nodes \ Hosts : handleIncomingRequest(n)
    \/ \E n \in Hosts : handleIncomingAccept(n)

SpecUsers == InitRace /\ [][NextUsers]_vars

\* the node whose process is the GUI; the other runs the shell
Gui == {"A"}

\* sessions of the two front ends: register, login, logout and restart
NextSession ==
    \/ \E n \in Nodes : \E u \in Accounts(n) : RegisterAs(n, u)
    \/ \E n \in Nodes \ Gui : \E u \in Usernames(n), pw \in Passwords : Login(n, u, pw)
    \/ \E n \in Nodes \ Gui : Logout(n)
    \/ \E n \in Gui : \E u \in Usernames(n), pw \in Passwords : AppLogin(n, u, pw)
    \/ \E n \in Gui : AppLogout(n)
    \/ \E n \in Nodes : Restart(n)

SpecSession == Init /\ [][NextSession]_vars

\* the conference engine's map accesses one at a time, for calls of the
\* engine's methods issued on different tasks; the Manager has no lock
CallSubscribeToConference(n, c) ==
    /\ auth[n].id # 0
    /\ BeginCall(n, [NewCall("SubscribeToConference", n, "", NoWire, auth[n], "")
                        EXCEPT !.conf = c], <<>>)

CallLeaveConference(n, c) ==
    /\ auth[n].id # 0
    /\ BeginCall(n, [NewCall("LeaveConference", n, "", NoWire, auth[n], "")
                        EXCEPT !.conf = c], <<>>)

\* the call in slot i returns err
EngineReturn(i, err) ==
    /\ calls' = [calls EXCEPT ![i] = NoCall]
    /\ result' = Result(calls[i].op, calls[i].node, "", err, "none", "", calls[i].conf)

\* the call in slot i moves on to pc
EngineGoto(i, pc) ==
    /\ calls' = [calls EXCEPT ![i].pc = pc]
    /\ result' = NoResult

\* one statement of SubscribeToConference or LeaveConference
StepEngine(i) ==
    LET c == calls[i]
        n == c.node
        t == TopicName(c.conf)
    IN  /\ c.op \in {"SubscribeToConference", "LeaveConference"}
        /\ alive[n]
        /\ UNCHANGED <<users, friends, messages, currentUserID, auth, alive, epoch, connected,
                       retryTask, ghost, net, conferences, conferenceMessages, confGhost,
                       transport>>
        /\ CASE c.op = "SubscribeToConference" /\ c.pc = "start" ->
                  \* if _, ok := m.subscriptions[conferenceID]; ok
                  /\ IF engine[n].subscriptions[c.conf] # 0
                     THEN EngineReturn(i, "nil") ELSE EngineGoto(i, "join")
                  /\ UNCHANGED <<engine, participants>>
             [] c.op = "SubscribeToConference" /\ c.pc = "join" ->
                  \* pubsub.Join and topic.Subscribe
                  IF LiveSubs(engine[n], t) # {}
                  THEN /\ EngineReturn(i, "failed to join topic")
                       /\ UNCHANGED <<engine, participants>>
                  ELSE /\ Len(engine[n].subs) < MaxSubs
                       /\ engine' = [engine EXCEPT ![n].subs =
                              Append(@, [topic |-> t, ch |-> <<>>, cancelled |-> FALSE])]
                       /\ calls' = [calls EXCEPT ![i].pc = "store",
                                                 ![i].id = Len(engine[n].subs) + 1]
                       /\ result' = NoResult
                       /\ UNCHANGED participants
             [] c.op = "SubscribeToConference" /\ c.pc = "store" ->
                  \* m.subscriptions[conferenceID] = sub
                  /\ engine' = [engine EXCEPT ![n].subscriptions[c.conf] = c.id]
                  /\ EngineGoto(i, "storeTopic")
                  /\ UNCHANGED participants
             [] c.op = "SubscribeToConference" /\ c.pc = "storeTopic" ->
                  \* m.topics[conferenceID] = topic; go m.listenToConference
                  /\ engine' = [engine EXCEPT
                         ![n].topics[c.conf] = c.id,
                         ![n].tasks = Append(@, [conferenceID |-> c.conf, sub |-> c.id,
                                                 pc |-> "next", msg |-> NoGossip])]
                  /\ EngineReturn(i, "nil")
                  /\ UNCHANGED participants
             [] c.op = "LeaveConference" /\ c.pc = "start" ->
                  /\ participants' = [participants EXCEPT ![n] =
                         RemoveConferenceParticipant(@, c.conf, c.cur.id)]
                  /\ EngineGoto(i, "subscriptions")
                  /\ UNCHANGED engine
             [] c.op = "LeaveConference" /\ c.pc = "subscriptions" ->
                  \* sub.Cancel(); delete(m.subscriptions, conferenceID)
                  /\ engine' = [engine EXCEPT ![n] =
                         LET h == @.subscriptions[c.conf]
                         IN  IF h # 0 THEN [@ EXCEPT !.subs[h].cancelled = TRUE,
                                                     !.subscriptions[c.conf] = 0]
                             ELSE @]
                  /\ EngineGoto(i, "topics")
                  /\ UNCHANGED participants
             [] c.op = "LeaveConference" /\ c.pc = "topics" ->
                  \* topic.Close(); delete(m.topics, conferenceID)
                  /\ engine' = [engine EXCEPT ![n].topics[c.conf] = 0]
                  /\ EngineReturn(i, "nil")
                  /\ UNCHANGED participants
             [] OTHER -> FALSE

NextEngine ==
    \/ \E n \in Hosts, c \in ConfIds : CallSubscribeToConference(n, c)
    \/ \E n \in Hosts, c \in ConfIds : CallLeaveConference(n, c)
    \/ \E i \in 1..MaxCalls : StepEngine(i)

SpecEngine == InitPlaceholder /\ [][NextEngine]_vars

\* GetConnectedPeers: the entries of peers whose Connected flag is set
GetConnectedPeers(tr) == {p \in DOMAIN tr.peers : tr.peers[p] = "connected"}

\* handleNewConnection(peerID): the entry is created or its flag set
handleNewConnection(tr, p) == [tr.peers EXCEPT ![p] = "connected"]

\* handleDisconnection(peerID): the flag of an existing entry is cleared
handleDisconnection(tr, p) ==
    IF tr.peers[p] = "absent" THEN tr.peers ELSE [tr.peers EXCEPT ![p] = "disconnected"]

\* the swarm of node n adds a connection to p and calls ConnectedF
Connected(n, p) ==
    /\ alive[n]
    /\ transport[n].conns[p] < MaxConns
    /\ LET tr == [transport[n] EXCEPT !.conns[p] = @ + 1]
       IN  transport' = [transport EXCEPT ![n] = [tr EXCEPT !.peers = handleNewConnection(tr, p)]]
    /\ result' = Result("Connected", n, p, "nil", "none", "", 0)
    /\ UNCHANGED <<users, friends, messages, currentUserID, auth, alive, epoch, connected, net,
                   retryTask, ghost, calls, conferences, participants, conferenceMessages,
                   engine, confGhost>>

\* the swarm of node n removes a connection to p and calls DisconnectedF
Disconnected(n, p) ==
    /\ alive[n]
    /\ transport[n].conns[p] > 0
    /\ LET tr == [transport[n] EXCEPT !.conns[p] = @ - 1]
       IN  transport' = [transport EXCEPT ![n] = [tr EXCEPT !.peers = handleDisconnection(tr, p)]]
    /\ result' = Result("Disconnected", n, p, "nil", "none", "", 0)
    /\ UNCHANGED <<users, friends, messages, currentUserID, auth, alive, epoch, connected, net,
                   retryTask, ghost, calls, conferences, participants, conferenceMessages,
                   engine, confGhost>>

NextRegistry ==
    \/ \E n \in Nodes : \E p \in Dialers(n) : Connected(n, p)
    \/ \E n \in Nodes : \E p \in Dialers(n) : Disconnected(n, p)

SpecRegistry == Init /\ [][NextRegistry]_vars

\* a peer nobody sent a request to opens a friend/accept stream to node n:
\* HandleFriendAccept reads whatever response the stream carries
RemoteAccept(n) ==
    /\ alive[n]
    /\ InFlight < MaxInFlight
    /\ net' = Put(net, <<FriendResponseMessage("friend/accept", PeerOf(n), Remote)>>)
    /\ result' = Result("RemoteAccept", n, Remote.username, "nil", "sent", "", 0)
    /\ UNCHANGED <<confVars, users, friends, messages, currentUserID, auth, alive, epoch,
                   connected, retryTask, ghost, calls>>

\* the friend protocol between two logged-in users, with a third peer that
\* answers requests nobody made
NextForged ==
    \/ FriendNext
    \/ \E n \in Hosts : RemoteAccept(n)

SpecForged == InitRace /\ [][NextForged]_vars

\* Manager.JoinConference called on a task of its own
CallJoinConference(n, c) ==
    /\ auth[n].id # 0
    /\ Len(engine[n].subs) < MaxSubs
    /\ BeginCall(n, [NewCall("JoinConference", n, "", NoWire, auth[n], "")
                        EXCEPT !.conf = c], <<>>)

\* one statement of JoinConference: the lookups and the loop over the
\* participants, the insert, the subscription
StepJoin(i) ==
    LET c == calls[i]
        n == c.node
    IN  /\ c.op = "JoinConference"
        /\ alive[n]
        /\ UNCHANGED <<users, friends, messages, currentUserID, auth, alive, epoch, connected,
                       retryTask, ghost, net, conferences, conferenceMessages, transport>>
        /\ CASE c.pc = "start" ->
                  /\ IF JoinCheck(n, c.conf) # "nil"
                     THEN EngineReturn(i, JoinCheck(n, c.conf)) ELSE EngineGoto(i, "add")
                  /\ UNCHANGED <<engine, participants, confGhost>>
             [] c.pc = "add" ->
                  /\ participants' = [participants EXCEPT ![n] =
                         AddConferenceParticipant(@, c.conf, c.cur)]
                  /\ EngineGoto(i, "subscribe")
                  /\ UNCHANGED <<engine, confGhost>>
             [] c.pc = "subscribe" ->
                  LET sub == SubscribeToConference(engine[n], c.conf)
                  IN  /\ engine[n].subscriptions[c.conf] = 0 => Len(engine[n].subs) < MaxSubs
                      /\ engine' = [engine EXCEPT ![n] = sub.eng]
                      /\ confGhost' = [confGhost EXCEPT ![n] =
                                          IF sub.err = "nil" THEN Rejoined(@, c.conf) ELSE @]
                      /\ EngineReturn(i, sub.err)
                      /\ UNCHANGED participants
             [] OTHER -> FALSE

\* no call of node n is between two statements
Quiet(n) == \A i \in 1..MaxCalls : calls[i].node # n

\* create and leave from the shell, and joins that may overlap each other
NextJoin ==
    \/ \E n \in Hosts, name \in ConfNames : Quiet(n) /\ ManagerCreateConference(n, name)
    \/ \E n \in Hosts, c \in ConfIds : Quiet(n) /\ LeaveConference(n, c)
    \/ \E n \in Hosts, c \in ConfIds : CallJoinConference(n, c)
    \/ \E i \in 1..MaxCalls : StepJoin(i)

SpecJoin == InitPlaceholder /\ [][NextJoin]_vars

\* Manager.CreateConference called in a process whose store writes and whose
\* pubsub may fail
CallCreateConference(n, name) ==
    /\ auth[n].id # 0
    /\ Len(conferences[n]) < MaxConfs
    /\ Len(engine[n].subs) < MaxSubs
    /\ Quiet(n)
    /\ BeginCall(n, NewCall("CreateConference", n, name, NoWire, auth[n], ""), <<>>)

\* one statement of CreateConference: the session check, the insert of the
\* conference, the insert of the creator, the subscription
StepCreate(i) ==
    LET c == calls[i]
        n == c.node
    IN  /\ c.op = "CreateConference"
        /\ alive[n]
        /\ UNCHANGED <<users, friends, messages, currentUserID, auth, alive, epoch, connected,
                       retryTask, ghost, net, conferenceMessages, transport>>
        /\ CASE c.pc = "start" ->
                  /\ IF currentUserID[n].conference = 0
                     THEN EngineReturn(i, "not authenticated") ELSE EngineGoto(i, "create")
                  /\ UNCHANGED <<conferences, participants, engine, confGhost>>
             [] c.pc = "create" ->
                  \E ok \in BOOLEAN :
                      /\ IF ok
                         THEN /\ conferences' = [conferences EXCEPT ![n] =
                                     CreateConference(@, c.arg, c.cur.id)]
                              /\ calls' = [calls EXCEPT ![i].pc = "add",
                                                        ![i].conf = Len(conferences[n]) + 1]
                              /\ result' = NoResult
                         ELSE /\ EngineReturn(i, "failed to create conference")
                              /\ UNCHANGED conferences
                      /\ UNCHANGED <<participants, engine, confGhost>>
             [] c.pc = "add" ->
                  \E ok \in BOOLEAN :
                      /\ IF ok
                         THEN /\ participants' = [participants EXCEPT ![n] =
                                     AddConferenceParticipant(@, c.conf, c.cur)]
                              /\ EngineGoto(i, "subscribe")
                         ELSE /\ EngineReturn(i, "failed to add creator as participant")
                              /\ UNCHANGED participants
                      /\ UNCHANGED <<conferences, engine, confGhost>>
             [] c.pc = "subscribe" ->
                  \E ok \in BOOLEAN :
                      LET sub == IF ok THEN SubscribeToConference(engine[n], c.conf)
                                 ELSE [err |-> "failed to join topic", eng |-> engine[n]]
                      IN  /\ engine' = [engine EXCEPT ![n] = sub.eng]
                          /\ confGhost' = [confGhost EXCEPT ![n] =
                                              IF sub.err = "nil" THEN Rejoined(@, c.conf) ELSE @]
                          /\ EngineReturn(i, sub.err)
                          /\ UNCHANGED <<conferences, participants>>
             [] OTHER -> FALSE

\* conferences created and left on both nodes, a write or the join failing
NextCreate ==
    \/ \E n \in Nodes, name \in ConfNames : CallCreateConference(n, name)
    \/ \E i \in 1..MaxCalls : StepCreate(i)
    \/ \E n \in Nodes, c \in ConfIds : Quiet(n) /\ LeaveConference(n, c)

SpecCreate == InitPlaceholder /\ [][NextCreate]_vars

\* two friends, one of whom restarts with a new identity: sessions, the
\* connection, direct messages and friend requests (no accept, reject or
\* acknowledgement is ever written from these stores).  The message handler
\* and the retry task are goroutines: neither waits for ever on a step it can
\* take
NextStrand ==
    \/ \E n \in Hosts : Restart(n)
    \/ \E n \in Nodes : Login(n, UsernameOf(n), "password1")
    \/ Connect
    \/ \E n \in Nodes \ Hosts : \E u \in Usernames(n), c \in Contents : SendMessage(n, u, c)
    \/ \E n \in Nodes : handleIncomingMessage(n)
    \/ \E n \in Nodes : RetryUndeliveredMessages(n)
    \/ \E n \in Nodes, p \in Peers : SendFriendRequest(n, p)
    \/ \E n \in Nodes : handleIncomingRequest(n)

SpecStrand ==
    /\ InitPlaceholder /\ [][NextStrand]_vars
    /\ \A n \in Nodes :
          /\ WF_vars(handleIncomingMessage(n))
          /\ WF_vars(RetryUndeliveredMessages(n))

----------------------------------------------------------------------------
(* Properties *)

Rows(n) == {friends[n][i] : i \in 1..Len(friends[n])}

\* node n holds an accepted friendship row a -> b
AcceptedRow(n, a, b) ==
    \E f \in Rows(n) : f.user_id = a /\ f.friend_id = b /\ f.status = "accepted"

MessageRows(n) == {messages[n][i] : i \in 1..Len(messages[n])}

\* C1: on every node, with no friend operation or handler in progress, every
\* accepted friendship row a -> b has a matching accepted row b -> a (in
\* SpecFriends every operation is atomic, so every state qualifies); this
\* includes the case where both users requested each other before either accepted.
C1_AcceptedIsReciprocal ==
    \A n \in Nodes : \A f \in Rows(n) :
        f.status = "accepted" => AcceptedRow(n, f.friend_id, f.user_id)

\* the connection is open, both processes run, both users are logged in
BothOnline ==
    /\ connected
    /\ \A n \in Nodes : alive[n] /\ auth[n].id # 0

\* payload m carries the row id of node n's store, for some direct message of n
InFlightFrom(n, id) ==
    \E m \in BagToSet(net) :
        m.kind = "message/direct" /\ m.src = PeerOf(n) /\ m.message_id = id

\* C2: offline queue.  A message sent while the recipient was not connected is
\* saved undelivered, and once the recipient has logged in with the connection
\* open and the sender online, and the retry task of that login has run to its
\* end, the message has been transmitted: its row is delivered or its payload
\* is in flight.  (The finite form of "is eventually transmitted": the retry
\* task is the only step the login starts.)
C2_QueueDrainedAfterLogin ==
    \A n \in Nodes :
        (retryTask[n] = 0 /\ BothOnline) =>
            \A row \in MessageRows(Other(n)) :
                row.id \in ghost[Other(n)].awaited =>
                    row.delivered \/ InFlightFrom(Other(n), row.id)

\* C3: on the sender's node a row saved by SendMessage is delivered only after
\* a message/ack naming its id has been handled.
C3_DeliveredOnlyAfterAck ==
    \A n \in Nodes : \A row \in MessageRows(n) :
        (row.id \in ghost[n].sent /\ row.delivered) => row.id \in ghost[n].acked

\* C4: when the sender handles the read receipt for a message M, the row that
\* becomes read is M's row and no other row of the sender's store changes
\* (result'.ref is the sender-side id of M, whatever id the receiver's store
\* gave its copy).
C4_ReceiptMarksItsMessage ==
    [][result'.op = "handleMessageRead" =>
          LET n == result'.node
          IN  /\ Len(messages'[n]) = Len(messages[n])
              /\ \A i \in 1..Len(messages[n]) :
                    /\ messages'[n][i].read =
                          (messages[n][i].read \/ messages[n][i].id = result'.ref)
                    /\ messages[n][i].id # result'.ref => messages'[n][i] = messages[n][i]
              /\ \E i \in 1..Len(messages[n]) : messages[n][i].id = result'.ref]_vars

\* C5: SendMessage to a username with which the sender has no accepted
\* friendship row in either direction fails with the not-friends error, saves
\* no row and writes no payload; with an accepted row in one direction or the
\* other it saves the row.
C5_NonFriendRefused ==
    [][result'.op = "SendMessage" =>
          LET n == result'.node
              cur == auth[n]
              to == GetUserByUsername(users[n], result'.arg)
          IN  IF AcceptedRow(n, cur.id, to.id) \/ AcceptedRow(n, to.id, cur.id)
              THEN /\ result'.err = "nil"
                   /\ Len(messages'[n]) = Len(messages[n]) + 1
              ELSE /\ result'.err = "not friends"
                   /\ messages' = messages
                   /\ net' = net]_vars

\* (C5, a recipient with a user row: the friendship test decides the send.)
C5_KnownRecipient ==
    [][(result'.op = "SendMessage" /\ result'.err # "panic") =>
          LET n == result'.node
              cur == auth[n]
              to == GetUserByUsername(users[n], result'.arg)
          IN  IF AcceptedRow(n, cur.id, to.id) \/ AcceptedRow(n, to.id, cur.id)
              THEN /\ result'.err = "nil"
                   /\ Len(messages'[n]) = Len(messages[n]) + 1
              ELSE /\ result'.err = "not friends"
                   /\ messages' = messages
                   /\ net' = net]_vars

UserRows(n) == {users[n][i] : i \in 1..Len(users[n])}

\* C6: placeholder upgrade.  Once the friend/accept of a user has been handled
\* with a session, a lookup of the username the accept carried returns a row,
\* and that row is the only user row with its peer id.
C6_PlaceholderUpgraded ==
    \A n \in Nodes :
        (result.op = "handleIncomingAccept" /\ result.node = n /\ result.err = "nil") =>
            LET u == GetUserByUsername(users[n], result.arg)
            IN  /\ u.id # 0
                /\ Cardinality({v \in UserRows(n) : v.peer_id = u.peer_id}) = 1

\* C7: a friend/request handled with a session leaves the sender known under
\* the username the request carried, and a friendship row sender -> receiver,
\* also when the store held a placeholder row for the sender's peer id.
C7_RequestRecorded ==
    \A n \in Nodes :
        (result.op = "handleIncomingRequest" /\ result.node = n /\ currentUserID[n].friends # 0) =>
            LET u == GetUserByUsername(users[n], result.arg)
            IN  /\ u.id # 0
                /\ \E f \in Rows(n) : f.user_id = u.id /\ f.friend_id = currentUserID[n].friends

\* C8: on every node at most one friendship row exists for a pair (requester,
\* target), whatever the number of SendFriendRequest calls and however they
\* interleave; a call that found the pending row at its start returns the
\* duplicate-request error (the already-friends error once the row has been
\* accepted), and a call that returns success found no row.
C8_DuplicateRequest ==
    /\ \A n \in Nodes : \A i, j \in 1..Len(friends[n]) :
          (friends[n][i].user_id = friends[n][j].user_id
             /\ friends[n][i].friend_id = friends[n][j].friend_id) => i = j
    /\ result.op = "SendFriendRequest" =>
          LET n == result.node
              t == GetUserByPeerID(users[n], result.arg)
              f == GetFriendRequest(friends[n], auth[n].id, t.id)
          IN  /\ result.pre = "pending" =>
                    \/ result.err = "ErrPendingRequest" /\ f.status = "pending"
                    \/ result.err = "ErrAlreadyFriends" /\ f.status = "accepted"
              /\ result.err = "nil" => result.pre = "" /\ f.status = "pending"

\* two sends to one target ran concurrently: the second insert met the UNIQUE
\* constraint, and one pending row exists
C8_Witness ==
    /\ result.op = "SendFriendRequest"
    /\ result.err = "failed to create friend request"
    /\ LET n == result.node
           t == GetUserByPeerID(users[n], result.arg)
       IN  Cardinality({i \in 1..Len(friends[n]) :
                           /\ friends[n][i].user_id = auth[n].id
                           /\ friends[n][i].friend_id = t.id
                           /\ friends[n][i].status = "pending"}) = 1

\* C9: a SendFriendRequest repeated while the target is reachable, for a
\* pending row whose friend/request was never written to a stream, attempts the
\* stream again.  (The finite form of "the target eventually receives it".)
C9_RepeatReattempts ==
    \A n \in Nodes :
        (/\ result.op = "SendFriendRequest"
         /\ result.node = n
         /\ result.pre = "pending"
         /\ result.arg \notin ghost[n].requested
         /\ CanStream(n, result.arg)) => result.stream # "none"

\* C10: a friendship row whose status is accepted or rejected keeps that
\* status, and no friendship row is deleted, in every interleaving of the
\* friend operations and handlers.
C10_ForwardOnly ==
    [][\A n \in Nodes :
          /\ Len(friends'[n]) >= Len(friends[n])
          /\ \A i \in 1..Len(friends[n]) :
                /\ friends'[n][i].id = friends[n][i].id
                /\ friends[n][i].status \in {"accepted", "rejected"} =>
                      friends'[n][i].status = friends[n][i].status]_vars

\* C11: receive reject.  When a friend/reject from peer S is handled on a node
\* whose store holds the pending row (me -> S), that row is rejected afterwards,
\* and the handler creates no row.
C11_RejectRecorded ==
    [][\A n \in Nodes : \A m \in Inbox(n, {"friend/reject"}) :
          (/\ result'.op = "handleIncomingReject"
           /\ result'.node = n
           /\ net' = Take1(net, m)
           /\ auth[n].id # 0) =>
              LET s == GetUserByPeerID(users[n], m.src)
                  f == GetFriendRequest(friends[n], auth[n].id, s.id)
              IN  /\ Len(friends'[n]) = Len(friends[n])
                  /\ (s.id # 0 /\ f.id # 0 /\ f.status = "pending") =>
                        GetFriendRequest(friends'[n], auth[n].id, s.id).status = "rejected"]_vars

\* on node n the session user and the user known for node m's peer id are
\* friends in both directions
FriendsBothWays(n, m) ==
    LET s == GetUserByPeerID(users[n], PeerOf(m))
    IN  /\ auth[n].id # 0
        /\ s.id # 0
        /\ AcceptedRow(n, auth[n].id, s.id)
        /\ AcceptedRow(n, s.id, auth[n].id)

\* AcceptFriendRequest has just returned nil on node a
AcceptReturned(a) ==
    /\ result.op = "AcceptFriendRequest"
    /\ result.node = a
    /\ result.err = "nil"

----------------------------------------------------------------------------
(* Properties of the conference engine *)

\* the user with id uid has an active participant row of conference c at node n
IsActiveIn(n, c, uid) ==
    \E i \in 1..Len(participants[n]) :
        /\ participants[n][i].conference_id = c
        /\ participants[n][i].user_id = uid
        /\ participants[n][i].active

\* the step is a conference command op of node n on conference c returning
ConfReturned(op, n, c) ==
    /\ result' # result
    /\ result'.op = op /\ result'.node = n /\ result'.mid = c

\* C13: three-node conference.  The scenario's steps each succeed: the
\* creator of a conference, an active participant of it, invites a friend
\* whose peer is connected and every check of the invite passes (only the
\* stream may fail to open); a user who has handled an invite for conference
\* c joins c without error.
C13_ThreeNodeConference ==
    [][\A n \in Nodes, c \in ConfIds :
          /\ \A u \in Usernames(n) :
                LET friend == GetUserByUsername(users[n], u)
                IN  (/\ ConfReturned("InviteToConference", n, c) /\ result'.arg = u
                     /\ GetConference(conferences[n], c).creator_id = auth[n].id
                     /\ IsActiveIn(n, c, auth[n].id)
                     /\ friend.id # 0 /\ friend.id # auth[n].id
                     /\ IsFriend(friends[n], auth[n].id, friend.id)
                     /\ Connectedness(n, friend.peer_id)) =>
                        result'.err \in {"nil", "failed to open stream"}
          /\ (ConfReturned("JoinConference", n, c) /\ c \in confGhost[n].invited) =>
                result'.err = "nil"]_vars

\* C14: listener rows.  Every conference_messages row a node holds carries the
\* conference id of the subscription it was received on (for a row saved by
\* Manager.SendMessage, of the conference it was sent to), whatever the
\* payload claims; so no row names a conference the node never subscribed to.
C14_RowCarriesSubscriptionId ==
    \A n \in Nodes : \A i \in 1..Len(conferenceMessages[n]) :
        conferenceMessages[n][i].conference_id = confGhost[n].rows[i].via

\* C15: conference isolation.  A node stores only messages published to a
\* conference it is a member of: conferences created independently on two
\* connected nodes never receive each other's messages, even when their
\* local ids are equal.  (Every row a listener saved was published for a
\* conference of the node that holds the row.)
C15_ConferencesIsolated ==
    \A n \in Nodes : \A i \in 1..Len(confGhost[n].rows) :
        connected => confGhost[n].rows[i].meant = n

\* C16: leave releases resources.  When LeaveConference(c) returns without
\* error the engine holds no topic handle and no subscription keyed by c, and
\* its entries for every other conference id, and their subscriptions, are
\* as they were.
C16_LeaveReleases ==
    [][\A n \in Nodes, c \in ConfIds :
          (ConfReturned("LeaveConference", n, c) /\ result'.err = "nil") =>
              /\ engine'[n].subscriptions[c] = 0
              /\ engine'[n].topics[c] = 0
              /\ \A d \in ConfIds \ {c} :
                    /\ engine'[n].subscriptions[d] = engine[n].subscriptions[d]
                    /\ engine'[n].topics[d] = engine[n].topics[d]
                    /\ engine[n].subscriptions[d] # 0 =>
                          engine'[n].subs[engine[n].subscriptions[d]] =
                              engine[n].subs[engine[n].subscriptions[d]]]_vars

\* conference 1 was subscribed and has been left while conference 2 is subscribed
C16_Witness ==
    /\ result.op = "LeaveConference" /\ result.node = "B" /\ result.mid = 1
    /\ result.err = "nil"
    /\ \E h \in 1..Len(engine["B"].subs) :
          engine["B"].subs[h].topic = TopicName(1) /\ engine["B"].subs[h].cancelled
    /\ engine["B"].subscriptions[1] = 0 /\ engine["B"].topics[1] = 0
    /\ engine["B"].subscriptions[2] # 0 /\ engine["B"].topics[2] # 0

\* listener i of node n was started on a subscription the engine no longer holds
Orphaned(n, i) ==
    /\ i \in 1..Len(engine[n].tasks)
    /\ engine[n].subscriptions[engine[n].tasks[i].conferenceID] # engine[n].tasks[i].sub

\* listener i of node n has returned
Exited(n, i) == i \in 1..Len(engine[n].tasks) /\ engine[n].tasks[i].pc = "done"

\* listener i of node n has a message to handle
Pending(n, i) ==
    /\ i \in 1..Len(engine[n].tasks)
    /\ \/ engine[n].tasks[i].pc = "save"
       \/ engine[n].subs[engine[n].tasks[i].sub].ch # <<>>

\* C17: leave, listeners.  A listener whose conference has been left eventually
\* exits; a listener whose conference is still subscribed never exits, and
\* every message handed to it is eventually taken out of its buffer and saved.
C17_ListenersAfterLeave ==
    \A n \in Nodes, i \in 1..MaxSubs :
        /\ Orphaned(n, i) ~> Exited(n, i)
        /\ [](Exited(n, i) => Orphaned(n, i))
        /\ Pending(n, i) ~> ~Pending(n, i)

\* conference 1 has been left and its listener has exited; the listener of
\* conference 2 is running and has saved a message
C17_Witness ==
    /\ Len(engine["B"].tasks) = 2
    /\ engine["B"].tasks[1].conferenceID = 1 /\ Orphaned("B", 1) /\ Exited("B", 1)
    /\ engine["B"].tasks[2].conferenceID = 2 /\ ~Orphaned("B", 2) /\ ~Exited("B", 2)
    /\ \E j \in 1..Len(confGhost["B"].rows) :
          confGhost["B"].rows[j].via = 2 /\ 1 \in confGhost["B"].rows[j].left

\* C18: leave and the listener.  Once LeaveConference(c) has returned, no
\* conference_messages row for c is saved until c is joined again, however
\* the leave interleaves with the listener handling a message in flight.
\* (Stated for the rows whose payload names the conference it was published
\* to: none of them was saved while its conference was left.)
C18_NoRowAfterLeave ==
    \A n \in Nodes : \A i \in 1..Len(conferenceMessages[n]) :
        conferenceMessages[n][i].conference_id = confGhost[n].rows[i].via =>
            conferenceMessages[n][i].conference_id \notin confGhost[n].rows[i].left

\* the listeners of node n started for conference c that have not returned and
\* are on an open subscription or have a message left to handle
Listeners(n, c) ==
    {i \in 1..Len(engine[n].tasks) :
        /\ engine[n].tasks[i].conferenceID = c /\ engine[n].tasks[i].pc # "done"
        /\ ~engine[n].subs[engine[n].tasks[i].sub].cancelled \/ Pending(n, i)}

\* C19: subscribe is idempotent.  SubscribeToConference on a subscribed
\* conference changes nothing, and at any time a node has at most one open
\* subscription and at most one listener task per conference id.
C19_OneListenerPerConference ==
    \A n \in Nodes, c \in ConfIds :
        /\ engine[n].subscriptions[c] # 0 =>
              SubscribeToConference(engine[n], c) = [err |-> "nil", eng |-> engine[n]]
        /\ Cardinality(LiveSubs(engine[n], TopicName(c))) <= 1
        /\ Cardinality(Listeners(n, c)) <= 1

\* C20: invite preconditions.  InviteToConference writes an invite to a stream
\* only if the inviter is an active participant of the conference, an
\* accepted friendship row exists in either direction, the invitee is not an
\* active participant and the invitee's peer is connected; otherwise it
\* returns an error and writes nothing, and when only the connection is
\* missing the error is the not-online one.
C20_InvitePreconditions ==
    [][\A n \in Nodes, c \in ConfIds : \A u \in Usernames(n) :
          LET friend == GetUserByUsername(users[n], u)
              may    == /\ GetConference(conferences[n], c).id # 0
                        /\ IsActiveIn(n, c, auth[n].id)
                        /\ friend.id # 0
                        /\ IsFriend(friends[n], auth[n].id, friend.id)
                        /\ ~IsActiveIn(n, c, friend.id)
          IN  (ConfReturned("InviteToConference", n, c) /\ result'.arg = u) =>
                  /\ net' # net => may /\ Connectedness(n, friend.peer_id)
                  /\ result'.err # "nil" => net' = net
                  /\ ~(may /\ Connectedness(n, friend.peer_id)) => result'.err # "nil"
                  /\ (may /\ ~Connectedness(n, friend.peer_id)) =>
                        result'.err = "not online"]_vars

\* C21: conference delivery.  The row a listener saves for a message published
\* on its subscription has the published content, and its created_at is the
\* timestamp carried in the gossip message.
C21_RowMatchesMessage ==
    \A n \in Nodes : \A i \in 1..Len(conferenceMessages[n]) :
        confGhost[n].rows[i].by = "listen" =>
            /\ conferenceMessages[n][i].content = confGhost[n].rows[i].content
            /\ conferenceMessages[n][i].created_at = confGhost[n].rows[i].timestamp

\* C22: delivered rows.  In every state of the store every messages row with
\* delivered = true has delivered_at set, also between the store calls of the
\* inbound handler and when its mark-delivered write fails.
C22_DeliveredHasTime ==
    \A n \in Nodes : \A i \in 1..Len(messages[n]) :
        messages[n][i].delivered => messages[n][i].delivered_at # "NULL"

\* C23: accepted rows.  Every friends row with status accepted has accepted_at
\* set: the row updated from pending, and the reciprocal row inserted by
\* AcceptFriendRequest or by the inbound accept handler.
C23_AcceptedHasTime ==
    \A n \in Nodes : \A i \in 1..Len(friends[n]) :
        friends[n][i].status = "accepted" => friends[n][i].accepted_at # "NULL"

\* C28: errors leave the store alone.  Whenever AcceptFriendRequest returns an
\* error, the friends table of its node is exactly as it was before the call.
C28_AcceptErrorWritesNothing ==
    [][\A n \in Nodes :
          (/\ result' # result
           /\ result'.op = "AcceptFriendRequest" /\ result'.node = n
           /\ result'.err # "nil") => friends'[n] = friends[n]]_vars

\* C24: marking is idempotent.  A second MarkMessageDelivered (MarkMessageRead)
\* on the same message id leaves the row as the first call left it: a
\* delivered_at (read_at) that is set is never written again.
C24_MarkIdempotent ==
    [][\A n \in Nodes : \A i \in 1..Len(messages[n]) :
          i <= Len(messages'[n]) =>
              /\ messages[n][i].delivered_at # "NULL" =>
                     messages'[n][i].delivered_at = messages[n][i].delivered_at
              /\ messages[n][i].read_at # "NULL" =>
                     messages'[n][i].read_at = messages[n][i].read_at]_vars

\* no two rows of a users table share a username or a peer_id
UniqueColumns(us) ==
    \A i, j \in 1..Len(us) :
        i # j => us[i].username # us[j].username /\ us[i].peer_id # us[j].peer_id

\* C25: unique users.  After every operation no two user rows share a username
\* or a peer_id; a Register or Login that returns an error leaves the table as
\* it was, and a Login that would collide does not succeed: after a successful
\* Login the user's row carries the node's peer id.
C25_UsersUnique ==
    [][\A n \in Nodes :
          /\ UniqueColumns(users'[n])
          /\ (result' # result /\ result'.node = n /\ result'.op \in {"Register", "Login"}) =>
                /\ result'.err # "nil" => users'[n] = users[n]
                /\ (result'.op = "Login" /\ result'.err = "nil") =>
                       GetUserByUsername(users'[n], result'.arg).peer_id = PeerOf(n)]_vars

\* C26: the session reaches the engines.  After a successful Login of u the
\* friends, messages and conference managers each hold current user id u.id;
\* after Logout each of the three holds 0.
C26_SessionInEngines ==
    [][\A n \in Nodes :
          (result' # result /\ result'.node = n /\ result'.err = "nil") =>
              /\ result'.op = "Login" =>
                    /\ GetUserByUsername(users'[n], result'.arg).id # 0
                    /\ currentUserID'[n] =
                           SetCurrentUser(GetUserByUsername(users'[n], result'.arg).id)
              /\ result'.op = "Logout" => currentUserID'[n] = SetCurrentUser(0)]_vars

\* C27: placeholders cannot log in.  A users row with the placeholder password
\* hash is never the authenticated user: Login with its username returns an
\* error for every password and leaves the session as it was.
C27_PlaceholderCannotLogin ==
    [][\A n \in Nodes :
          /\ auth'[n].password_hash # RemoteHash
          /\ (/\ result' # result /\ result'.node = n /\ result'.op = "Login"
              /\ GetUserByUsername(users[n], result'.arg).password_hash = RemoteHash) =>
                 /\ result'.err = "ErrInvalidPassword"
                 /\ auth'[n] = auth[n]
                 /\ currentUserID'[n] = currentUserID[n]]_vars

\* a login was attempted under the username of a placeholder row
C27_Witness ==
    /\ result.op = "Login" /\ result.node = "B" /\ result.err = "ErrInvalidPassword"
    /\ GetUserByUsername(users["B"], result.arg).password_hash = RemoteHash

\* the node whose process holds peer id p
Holder(p) == CHOOSE n \in Nodes : \E e \in 1..Len(Identities[n]) : Identities[n][e] = p

\* C29: persist, then send.  A direct message on the wire has its row in the
\* sender's store, under the id it carries and with its content; a SendMessage
\* whose save fails puts nothing on the wire and writes no row.
C29_PersistBeforeSend ==
    [][/\ \A w \in BagToSet(net') :
             w.kind = "message/direct" =>
                 \E i \in 1..Len(messages'[Holder(w.src)]) :
                     /\ messages'[Holder(w.src)][i].id = w.message_id
                     /\ messages'[Holder(w.src)][i].content = w.content
       /\ (result' # result /\ result'.op = "SendMessage"
               /\ result'.err = "failed to save message") =>
              net' = net /\ messages' = messages]_vars

\* a SendMessage has put its message on the wire
C29_Witness ==
    /\ result.op = "SendMessage" /\ result.stream = "sent"
    /\ \E w \in BagToSet(net) : w.kind = "message/direct" /\ w.message_id = result.mid

C31_UnknownUserDropped ==
    [][\A n \in Nodes :
          (/\ result' # result
           /\ result'.op = "handleIncomingMessage" /\ result'.node = n
           /\ GetUserByUsername(users[n], result'.arg).id = 0) =>
              /\ result'.err # "panic"
              /\ alive'[n]
              /\ messages'[n] = messages[n]
              /\ \A w \in BagToSet(net') : w.kind = "message/ack" => w \in BagToSet(net)]_vars

\* the call in slot i has written or deleted one of the two map entries of its
\* conference and not yet the other
Updating(i) ==
    \/ calls[i].op = "SubscribeToConference" /\ calls[i].pc = "storeTopic"
    \/ calls[i].op = "LeaveConference" /\ calls[i].pc = "topics"

\* the step reads or writes a map of the engine of node n on behalf of slot j
Touches(j, n) ==
    /\ calls[j].node = n /\ calls'[j] # calls[j]
    /\ \/ engine'[n].subscriptions # engine[n].subscriptions
       \/ engine'[n].topics # engine[n].topics
       \/ calls[j].op = "SubscribeToConference" /\ calls[j].pc = "start"

\* C32: one mutex.  The engine's maps are read and written under a single
\* mutex: while one call is in the middle of its update of the two maps, no
\* call on another task reads or writes them.
C32_MapsUnderMutex ==
    [][\A i, j \in 1..MaxCalls :
          (i # j /\ Updating(i) /\ calls[j].node = calls[i].node) =>
              ~Touches(j, calls[i].node)]_vars

\* C33: null timestamps are read.  GetConferenceParticipants on a conference
\* with an active participant (left_at NULL) returns that participant without
\* error, and no conference command stops at the participant lookup.
C33_NullTimestampRead ==
    [][\A n \in Nodes :
          /\ \A i \in 1..Len(participants'[n]) :
                participants'[n][i].active =>
                    LET r == GetConferenceParticipants(participants'[n],
                                                       participants'[n][i].conference_id)
                    IN  /\ r.err = "nil"
                        /\ \E k \in 1..Len(r.rows) : r.rows[k] = participants'[n][i]
          /\ (result' # result /\ result'.node = n) =>
                result'.err # "failed to get participants"]_vars

\* C34: the registry follows the connections.  At every moment and for every
\* peer p, the registry of a node reports p connected exactly when its swarm
\* holds at least one open connection to p.
C34_RegistryFollowsConnections ==
    \A n \in Nodes : \A p \in Dialers(n) :
        p \in GetConnectedPeers(transport[n]) <=> transport[n].conns[p] > 0

\* C35: a remote peer cannot force a friendship.  A step gives a node's store
\* a new accepted row between the local user U and a remote user V only when
\* the store held a pending U -> V row (U had sent V a request) or the step is
\* U's own accept command; an inbound friend/accept with no pending U -> V
\* row creates no accepted row.
C35_NoForcedFriendship ==
    [][\A n \in Nodes : \A i \in 1..Len(friends'[n]) :
          LET f == friends'[n][i]
              U == currentUserID[n].friends
          IN  (/\ f.status = "accepted"
               /\ i > Len(friends[n]) \/ friends[n][i].status # "accepted") =>
                  \/ \E j \in 1..Len(friends[n]) :
                        /\ friends[n][j].status = "pending"
                        /\ friends[n][j].user_id = U
                        /\ friends[n][j].friend_id \in {f.user_id, f.friend_id} \ {U}
                  \/ result'.op = "AcceptFriendRequest" /\ result'.node = n]_vars

\* C36: direct messages are accepted from friends only.  Whenever the inbound
\* message/direct handler of a node stores a row or sends an acknowledgement,
\* the node's own store holds an accepted friendship between the sender and
\* the recipient the payload names.
C36_FriendsOnlyInbound ==
    [][\A n \in Nodes :
          (result' # result /\ result'.op = "handleIncomingMessage" /\ result'.node = n) =>
              LET stored == Len(messages'[n]) > Len(messages[n])
                  acked  == \E w \in BagToSet(net') :
                               /\ w.kind = "message/ack"
                               /\ CopiesIn(w, net') > CopiesIn(w, net)
                  row    == messages'[n][Len(messages'[n])]
              IN  /\ acked => stored
                  /\ stored => IsFriend(friends[n], row.from_user_id, row.to_user_id)]_vars

\* the active Participant rows of user u in conference c on node n
ActiveRows(n, c, u) ==
    {i \in 1..Len(participants[n]) :
        /\ participants[n][i].conference_id = c
        /\ participants[n][i].user_id = u
        /\ participants[n][i].active}

\* C37: one active participation.  In every reachable state, for every
\* conference c and user u, at most one Participant row of (c, u) is active:
\* after any sequence of create, join and leave, and for every interleaving
\* of two JoinConference calls of the same user.
C37_OneActiveRow ==
    \A n \in Nodes : \A c \in ConfIds :
        \A u \in {participants[n][i].user_id : i \in 1..Len(participants[n])} :
            Cardinality(ActiveRows(n, c, u)) <= 1

\* C38: a failed login leaves nobody logged in.  Whenever App.Login returns an
\* error with no session open (wrong password, unknown user, or the peer id
\* not written), IsLoggedIn is false afterwards and the current user of the
\* engines is what it was.
C38_FailedLoginNoSession ==
    [][\A n \in Gui :
          (/\ result' # result /\ result'.op = "Login" /\ result'.node = n
           /\ result'.err # "nil"
           /\ auth[n].id = 0) =>
              /\ auth'[n].id = 0
              /\ currentUserID'[n] = currentUserID[n]]_vars

\* node n runs under a new identity, its user is logged in again and the
\* connection to the friend's node is open
Reconnected(n) ==
    /\ epoch[n] > 0
    /\ auth[n].id # 0 /\ auth[Other(n)].id # 0
    /\ alive[n] /\ alive[Other(n)]
    /\ connected

\* the friend's store holds a message that was never delivered, addressed
\* to the user row it keeps for a peer id of n
Queued(n) ==
    \E i \in 1..Len(messages[Other(n)]) :
        /\ messages[Other(n)][i].from_user_id = auth[Other(n)].id
        /\ GetUserByID(users[Other(n)], messages[Other(n)][i].to_user_id).peer_id
               \in {Identities[n][k] : k \in 1..Len(Identities[n])}
        /\ ~messages[Other(n)][i].delivered

\* a direct message is on its way to the peer n is now
Transmitted(n) ==
    \E w \in BagToSet(net) : w.kind = "message/direct" /\ w.dst = PeerOf(n)

\* C39: a rotated peer id does not strand a friendship.  When friend B has
\* restarted with a new peer id, logged in again and reconnected, a direct
\* message A has queued for B or sends afterwards is eventually transmitted to
\* B's current peer (A's stored peer id for B is brought up to date), unless
\* the session or the connection ends first.
C39_RotationDoesNotStrand ==
    \A n \in Hosts :
        [](Reconnected(n) /\ Queued(n) => <>(Transmitted(n) \/ ~Reconnected(n)))

\* C40: CreateConference is all or nothing.  Whenever it returns an error, the
\* store holds no Conference row and no Participant row of the conference the
\* call created, and the engine's maps hold no entry for it.
C40_CreateAllOrNothing ==
    [][\A n \in Nodes :
          (/\ result' # result /\ result'.op = "CreateConference" /\ result'.node = n
           /\ result'.err # "nil"
           /\ result'.mid # 0) =>
              /\ GetConference(conferences'[n], result'.mid).id = 0
              /\ \A k \in 1..Len(participants'[n]) :
                    participants'[n][k].conference_id # result'.mid
              /\ engine'[n].subscriptions[result'.mid] = 0
              /\ engine'[n].topics[result'.mid] = 0]_vars

====
